---------------------------- MODULE Spec2Model ----------------------------
(***************************************************************************)
(* Chapter-title resolution of kobo-highlights-extractor                   *)
(* (src/src/kobo_highlights_extractor/chapter_title.py and the part of     *)
(* exporter.py that builds the content indices and calls the resolver).    *)
(*                                                                         *)
(* A Python str is a sequence of characters; a character is a one-letter   *)
(* TLA+ string, or one of the named tokens ENDASH, EMDASH (the two dashes  *)
(* of the separator classes), BACKTICK and U+FFFD (the replacement         *)
(* character that percent-decoding produces for a byte that is not UTF-8). *)
(* The absent                                                              *)
(* value None is the one-element sequence <<"None">>, which is no str.     *)
(***************************************************************************)
EXTENDS Integers, Sequences, FiniteSets, TLC

None == <<"None">>

\* Python truthiness of an Optional[str]: None and "" are falsy.
Truthy(x) == x /= None /\ x /= <<>>

\* a or b
Or(a, b) == IF Truthy(a) THEN a ELSE b

(***************************************************************************)
(* Characters                                                              *)
(***************************************************************************)
UpperCase ==
    <<"A","B","C","D","E","F","G","H","I","J","K","L","M",
      "N","O","P","Q","R","S","T","U","V","W","X","Y","Z">>

LowerCase ==
    <<"a","b","c","d","e","f","g","h","i","j","k","l","m",
      "n","o","p","q","r","s","t","u","v","w","x","y","z">>

DigitSeq == <<"0","1","2","3","4","5","6","7","8","9">>

HexSeq == <<"0","1","2","3","4","5","6","7","8","9","a","b","c","d","e","f">>

\* The printable ASCII characters, code 32 (space) to code 126 (~), in order.
AsciiPrintable ==
    <<" ","!","\"","#","$","%","&","'","(",")","*","+",",","-",".","/",
      "0","1","2","3","4","5","6","7","8","9",":",";","<","=",">","?",
      "@","A","B","C","D","E","F","G","H","I","J","K","L","M","N","O",
      "P","Q","R","S","T","U","V","W","X","Y","Z","[","\\","]","^","_",
      "BACKTICK","a","b","c","d","e","f","g","h","i","j","k","l","m","n","o",
      "p","q","r","s","t","u","v","w","x","y","z","{","|","}","~">>

Range(f) == {f[i] : i \in DOMAIN f}

Upper_ == Range(UpperCase)

Lower_ == Range(LowerCase)

Letters == Upper_ \cup Lower_

Digits == Range(DigitSeq)

\* str.isspace() / the regex class \s, on the characters of the model
WhiteSpace == {" ", "\t", "\n", "\r", "\f"}

\* the regex class \w
WordChars == Letters \cup Digits \cup {"_"}

\* the roman-numeral class [IVXLCDM]
Roman == {"I","V","X","L","C","D","M"}

\* the separator class [:\-<en dash><em dash>] of the context patterns
Dashes == {":", "-", "ENDASH", "EMDASH"}

IndexOf(c, seq) == CHOOSE i \in DOMAIN seq : seq[i] = c

LowerChar(c) == IF c \in Upper_ THEN LowerCase[IndexOf(c, UpperCase)] ELSE c

UpperChar(c) == IF c \in Lower_ THEN UpperCase[IndexOf(c, LowerCase)] ELSE c

DigitVal(c) == IndexOf(c, DigitSeq) - 1

(***************************************************************************)
(* str methods                                                             *)
(***************************************************************************)
\* s[i:j] with 1-based inclusive bounds
Slice(s, i, j) == IF j < i THEN <<>> ELSE SubSeq(s, i, j)

\* s.lower()
ToLower(s) == [i \in 1..Len(s) |-> LowerChar(s[i])]

\* s.title(): a letter is upper-cased after a character that is no letter,
\* lower-cased after a letter
ToTitle(s) ==
    [i \in 1..Len(s) |->
        IF i > 1 /\ s[i-1] \in Letters THEN LowerChar(s[i]) ELSE UpperChar(s[i])]

\* s.startswith(p)
StartsWith(s, p) == Len(p) <= Len(s) /\ SubSeq(s, 1, Len(p)) = p

\* s.endswith(p)
EndsWith(s, p) == Len(p) <= Len(s) /\ SubSeq(s, Len(s) - Len(p) + 1, Len(s)) = p

\* s.find(p), 1-based; 0 when p does not occur in s
RECURSIVE FindFrom(_, _, _)
FindFrom(s, p, i) ==
    IF i + Len(p) - 1 > Len(s) THEN 0
    ELSE IF SubSeq(s, i, i + Len(p) - 1) = p THEN i
    ELSE FindFrom(s, p, i + 1)

Find(s, p) == FindFrom(s, p, 1)

\* p in s
Contains(s, p) == Find(s, p) /= 0

\* s.split(p, 1)[0]
Before(s, p) == IF Contains(s, p) THEN Slice(s, 1, Find(s, p) - 1) ELSE s

\* s.split(p, 1)[1], for an s that contains p
After(s, p) == Slice(s, Find(s, p) + Len(p), Len(s))

\* the first index from i on whose character is not in cs
RECURSIVE SkipFwd(_, _, _)
SkipFwd(s, cs, i) ==
    IF i <= Len(s) /\ s[i] \in cs THEN SkipFwd(s, cs, i + 1) ELSE i

\* the first index from i on whose character is in cs
SkipTo(s, cs, i) ==
    IF i > Len(s) THEN i
    ELSE IF \A h \in i..Len(s) : s[h] \notin cs THEN Len(s) + 1
    ELSE CHOOSE j \in i..Len(s) : s[j] \in cs /\ \A h \in i..(j - 1) : s[h] \notin cs

\* the last index up to j whose character is not in cs
RECURSIVE SkipBack(_, _, _)
SkipBack(s, cs, j) ==
    IF j >= 1 /\ s[j] \in cs THEN SkipBack(s, cs, j - 1) ELSE j

\* s.strip(): leading and trailing whitespace removed
StripOnce(s) ==
    LET a == IF s /= <<>> /\ s[1] \in WhiteSpace THEN 2 ELSE 1
        b == IF Len(s) >= a /\ s[Len(s)] \in WhiteSpace THEN Len(s) - 1 ELSE Len(s)
    IN  Slice(s, a, b)

Strip(s) == Slice(s, SkipFwd(s, WhiteSpace, 1), SkipBack(s, WhiteSpace, Len(s)))

\* s.lstrip(cs)
LStrip(s, cs) == Slice(s, SkipFwd(s, cs, 1), Len(s))

\* "".join(c for c in s if c not in cs)
Without(s, cs) == SelectSeq(s, LAMBDA c : c \notin cs)

(***************************************************************************)
(* Regular expressions (module re).  A pattern is a tree of the nodes      *)
(* below; ReMatch gives, for a pattern and a starting position, every way  *)
(* the pattern can match there, in the order in which Python's             *)
(* backtracking matcher tries them (greedy repetition: longest first; an   *)
(* alternation: left to right).  The first element is what Python finds.   *)
(* A match is [pos |-> position after it, caps |-> the groups' spans].     *)
(***************************************************************************)
\* one character of the class cs
Lit(cs) == [t |-> "lit", cs |-> cs]

\* one character not in cs: [^...]
NotLit(cs) == [t |-> "nlit", cs |-> cs]

\* x1 x2 ... xn
Cat(xs) == [t |-> "cat", xs |-> xs]

\* x1 | x2 | ... | xn
Alt(xs) == [t |-> "alt", xs |-> xs]

\* x{lo,hi}, greedy; hi = -1 for no upper limit
Rep(x, lo, hi) == [t |-> "rep", x |-> x, lo |-> lo, hi |-> hi]

\* x?  x*  x+
Opt(x) == Rep(x, 0, 1)

Star(x) == Rep(x, 0, -1)

Plus(x) == Rep(x, 1, -1)

\* capturing group number n
Grp(n, x) == [t |-> "grp", n |-> n, x |-> x]

\* \b  ^  $
WordB == [t |-> "wordb"]

Bol == [t |-> "bol"]

Eol == [t |-> "eol"]

\* the characters of w, literally
Word(w) == Cat([i \in 1..Len(w) |-> Lit({w[i]})])

\* the groups of a match that has captured nothing
NoCaps == <<<<0, 0>>, <<0, 0>>, <<0, 0>>>>

\* membership in a class, under re.IGNORECASE when ic
InClass(c, cs, ic) ==
    c \in cs \/ (ic /\ (LowerChar(c) \in cs \/ UpperChar(c) \in cs))

\* \b at position p of s: exactly one of s[p-1], s[p] is a word character
AtWordB(s, p) ==
    (p > 1 /\ s[p-1] \in WordChars) /= (p <= Len(s) /\ s[p] \in WordChars)

\* $ at position p of s: at the end, or before a newline that ends s
AtEol(s, p) == p = Len(s) + 1 \/ (p = Len(s) /\ s[p] = "\n")

RECURSIVE ReMatch(_, _, _, _)
RECURSIVE ReEach(_, _, _, _, _)
RECURSIVE ReCat(_, _, _, _, _)
RECURSIVE ReAlt(_, _, _, _, _)
RECURSIVE ReRep(_, _, _, _, _, _)
RECURSIVE ReRepEach(_, _, _, _, _, _, _, _)

\* the matches of x from each match of ms (from index k on), in order
ReEach(x, s, ms, k, ic) ==
    IF k > Len(ms) THEN <<>>
    ELSE ReMatch(x, s, ms[k], ic) \o ReEach(x, s, ms, k + 1, ic)

\* xs[k], xs[k+1], ... in sequence, from each match of ms
ReCat(xs, k, s, ms, ic) ==
    IF k > Len(xs) \/ ms = <<>> THEN ms
    ELSE ReCat(xs, k + 1, s, ReEach(xs[k], s, ms, 1, ic), ic)

\* xs[k] | xs[k+1] | ... from m
ReAlt(xs, k, s, m, ic) ==
    IF k > Len(xs) THEN <<>>
    ELSE ReMatch(xs[k], s, m, ic) \o ReAlt(xs, k + 1, s, m, ic)

\* x{lo,hi} from m: one more x and then the rest, before stopping here
ReRep(x, lo, hi, s, m, ic) ==
    (IF hi = 0 THEN <<>>
     ELSE ReRepEach(x, lo, hi, s, ReMatch(x, s, m, ic), 1, m.pos, ic))
    \o (IF lo <= 0 THEN <<m>> ELSE <<>>)

ReRepEach(x, lo, hi, s, ms, k, from, ic) ==
    IF k > Len(ms) THEN <<>>
    ELSE (IF ms[k].pos > from
          THEN ReRep(x, lo - 1, IF hi < 0 THEN hi ELSE hi - 1, s, ms[k], ic)
          ELSE <<>>)
         \o ReRepEach(x, lo, hi, s, ms, k + 1, from, ic)

ReMatch(x, s, m, ic) ==
    CASE x.t = "lit" ->
            IF m.pos <= Len(s) /\ InClass(s[m.pos], x.cs, ic)
            THEN <<[m EXCEPT !.pos = @ + 1]>> ELSE <<>>
      [] x.t = "nlit" ->
            IF m.pos <= Len(s) /\ ~InClass(s[m.pos], x.cs, ic)
            THEN <<[m EXCEPT !.pos = @ + 1]>> ELSE <<>>
      [] x.t = "wordb" -> IF AtWordB(s, m.pos) THEN <<m>> ELSE <<>>
      [] x.t = "bol" -> IF m.pos = 1 THEN <<m>> ELSE <<>>
      [] x.t = "eol" -> IF AtEol(s, m.pos) THEN <<m>> ELSE <<>>
      [] x.t = "cat" -> ReCat(x.xs, 1, s, <<m>>, ic)
      [] x.t = "alt" -> ReAlt(x.xs, 1, s, m, ic)
      [] x.t = "rep" -> ReRep(x.x, x.lo, x.hi, s, m, ic)
      [] x.t = "grp" ->
            LET rs == ReMatch(x.x, s, m, ic)
            IN  [k \in 1..Len(rs) |->
                    [rs[k] EXCEPT !.caps[x.n] = <<m.pos, rs[k].pos>>]]

\* the value of "no match"
NoMatch == [start |-> 0, end |-> 0, caps |-> NoCaps]

\* re.match(x, s): the match at the start of s
ReMatchAt(x, s, i, ic) ==
    LET First(rs) ==
            IF rs = <<>> THEN NoMatch
            ELSE [start |-> i, end |-> rs[1].pos, caps |-> rs[1].caps]
    IN  First(ReMatch(x, s, [pos |-> i, caps |-> NoCaps], ic))

ReMatchStart(x, s, ic) == ReMatchAt(x, s, 1, ic)

\* re.search(x, s): the match at the leftmost position that has one
\* the match at the leftmost of the positions lo..hi that has one: that of
\* the lower half of the positions, and that of the upper half when the
\* lower half has none
RECURSIVE ReSearchBetween(_, _, _, _, _)
ReSearchBetween(x, s, lo, hi, ic) ==
    IF lo > hi THEN NoMatch
    ELSE IF lo = hi THEN ReMatchAt(x, s, lo, ic)
    ELSE LET Found(r) ==
                 IF r /= NoMatch THEN r
                 ELSE ReSearchBetween(x, s, (lo + hi) \div 2 + 1, hi, ic)
         IN  Found(ReSearchBetween(x, s, lo, (lo + hi) \div 2, ic))

ReSearchFrom(x, s, i, ic) == ReSearchBetween(x, s, i, Len(s) + 1, ic)

ReSearch(x, s, ic) == ReSearchFrom(x, s, 1, ic)

\* re.fullmatch(x, s): the first way of matching that ends at the end of s
ReFullMatch(x, s, ic) ==
    LET Whole(rs) == SelectSeq(rs, LAMBDA r : r.pos = Len(s) + 1)
        First(rs) ==
            IF rs = <<>> THEN NoMatch
            ELSE [start |-> 1, end |-> rs[1].pos, caps |-> rs[1].caps]
    IN  First(Whole(ReMatch(x, s, [pos |-> 1, caps |-> NoCaps], ic)))

\* m.group(n); None when the group took no part in the match
Group(s, r, n) ==
    IF r.caps[n] = <<0, 0>> THEN None
    ELSE Slice(s, r.caps[n][1], r.caps[n][2] - 1)

(***************************************************************************)
(* urllib.parse.unquote                                                    *)
(***************************************************************************)
IsHex(c) == LowerChar(c) \in Range(HexSeq)

HexVal(c) == IndexOf(LowerChar(c), HexSeq) - 1

\* the character of a decoded byte b.  A byte from 128 on that is not part
\* of a well-formed UTF-8 sequence decodes (errors="replace") to U+FFFD; the
\* identifiers of this model hold no well-formed multi-byte sequence.
Chr(b) ==
    IF b >= 32 /\ b <= 126 THEN AsciiPrintable[b - 31]
    ELSE IF b = 9 THEN "\t"
    ELSE IF b = 10 THEN "\n"
    ELSE IF b = 12 THEN "\f"
    ELSE IF b = 13 THEN "\r"
    ELSE IF b >= 128 THEN "U+FFFD"
    ELSE "CTRL" \o ToString(b)

\* unquote(s): every %XX with two hex digits becomes the character of that
\* byte; a % that is not followed by two hex digits stays as it is.
RECURSIVE UnquoteFrom(_, _)
UnquoteFrom(s, i) ==
    IF i > Len(s) THEN <<>>
    ELSE IF s[i] = "%" /\ i + 2 <= Len(s) /\ IsHex(s[i+1]) /\ IsHex(s[i+2])
         THEN <<Chr(16 * HexVal(s[i+1]) + HexVal(s[i+2]))>> \o UnquoteFrom(s, i + 3)
         ELSE <<s[i]>> \o UnquoteFrom(s, i + 1)

unquote(s) == UnquoteFrom(s, 1)

(***************************************************************************)
(* Identifier decomposer                                                   *)
(***************************************************************************)
\* the start of the last occurrence of p in s, 0 when there is none
RECURSIVE LastFindFrom(_, _, _)
LastFindFrom(s, p, i) ==
    IF i < 1 THEN 0
    ELSE IF SubSeq(s, i, i + Len(p) - 1) = p THEN i
    ELSE LastFindFrom(s, p, i - 1)

LastFind(s, p) == LastFindFrom(s, p, Len(s) - Len(p) + 1)

\* what follows the last occurrence of p in s
AfterLast(s, p) == Slice(s, LastFind(s, p) + Len(p), Len(s))

\* The tail taken after the last separator instead of the first.
TailAfterLastSeparator(content_id) ==
    IF ~Truthy(content_id) THEN None
    ELSE LET tail == IF Contains(content_id, <<"!", "!">>)
                     THEN AfterLast(content_id, <<"!", "!">>)
                     ELSE IF Contains(content_id, <<"!">>)
                     THEN AfterLast(content_id, <<"!">>)
                     ELSE None
         IN  IF tail = None THEN None ELSE unquote(Before(tail, <<"#">>))

_tail_after_bang_bang_no_fragment(content_id) ==
    IF ~Truthy(content_id) THEN None
    ELSE LET tail == IF Contains(content_id, <<"!", "!">>)
                     THEN After(content_id, <<"!", "!">>)
                     ELSE IF Contains(content_id, <<"!">>)
                     THEN After(content_id, <<"!">>)
                     ELSE None
         IN  IF tail = None THEN None ELSE unquote(Before(tail, <<"#">>))

_p_anchor(content_id) ==
    IF ~Truthy(content_id) \/ ~Contains(content_id, <<"#">>) THEN None
    ELSE LET frag == After(content_id, <<"#">>)
             base == Before(frag, <<"-">>)
         IN  IF StartsWith(base, <<"p">>) THEN base ELSE None

_strip_after_bang_bang(content_id) ==
    IF ~Truthy(content_id) THEN content_id
    ELSE Before(content_id, <<"!", "!">>)

\* frag without its trailing hyphen and number, frag itself when it does not
\* end in a hyphen and a number
WithoutNumericSuffix(frag) ==
    IF \E k \in 1..(Len(frag) - 1) :
           frag[k] = "-" /\ \A h \in (k + 1)..Len(frag) : frag[h] \in Digits
    THEN SubSeq(frag, 1, (CHOOSE k \in 1..(Len(frag) - 1) :
                             frag[k] = "-" /\ \A h \in (k + 1)..Len(frag) : frag[h] \in Digits) - 1)
    ELSE frag

\* The mutant of _fragment_base: only a trailing hyphen and number is cut.
FragmentBaseNumericSuffix(content_id) ==
    IF ~Truthy(content_id) \/ ~Contains(content_id, <<"#">>) THEN None
    ELSE Before(content_id, <<"#">>) \o <<"#">> \o WithoutNumericSuffix(After(content_id, <<"#">>))

_fragment_base(content_id) ==
    IF ~Truthy(content_id) \/ ~Contains(content_id, <<"#">>) THEN None
    ELSE LET pre == Before(content_id, <<"#">>)
             frag == After(content_id, <<"#">>)
             frag_main == Before(frag, <<"-">>)
         IN  pre \o <<"#">> \o frag_main

\* The mutant of _pre_bang: a single ! separates too when there is no !!.
PreBangAnySeparator(content_id) ==
    IF ~Truthy(content_id) THEN None
    ELSE IF Contains(content_id, <<"!","!">>)
    THEN Before(content_id, <<"!","!">>)
    ELSE IF Contains(content_id, <<"!">>)
    THEN Before(content_id, <<"!">>)
    ELSE Or(_fragment_base(content_id), content_id)

_pre_bang(content_id) ==
    IF ~Truthy(content_id) THEN None
    ELSE IF Contains(content_id, <<"!", "!">>)
    THEN Before(content_id, <<"!", "!">>)
    ELSE Or(_fragment_base(content_id), content_id)

_normalize_id(s) == IF s /= None THEN unquote(s) ELSE None

_strip_fragment(content_id) ==
    IF ~Truthy(content_id) THEN content_id
    ELSE Before(content_id, <<"#">>)

(***************************************************************************)
(* Title cleaner and generic-title classifier                              *)
(***************************************************************************)
\* r"\bpart\d{1,5}\s*(?:_|\s)?split\s*\d{1,5}\b"
RePartSplit ==
    Cat(<<WordB, Word(<<"p","a","r","t">>), Rep(Lit(Digits), 1, 5),
          Star(Lit(WhiteSpace)), Opt(Alt(<<Lit({"_"}), Lit(WhiteSpace)>>)),
          Word(<<"s","p","l","i","t">>), Star(Lit(WhiteSpace)),
          Rep(Lit(Digits), 1, 5), WordB>>)

\* r"\bsplit[_ ]?\d{1,5}\b"
ReSplit ==
    Cat(<<WordB, Word(<<"s","p","l","i","t">>), Opt(Lit({"_", " "})),
          Rep(Lit(Digits), 1, 5), WordB>>)

\* r"^\d{10,13}\s+(?:chapter|epub|page|section|part)\b"
ReIsbnLabel ==
    Cat(<<Bol, Rep(Lit(Digits), 10, 13), Plus(Lit(WhiteSpace)),
          Alt(<<Word(<<"c","h","a","p","t","e","r">>), Word(<<"e","p","u","b">>),
                Word(<<"p","a","g","e">>), Word(<<"s","e","c","t","i","o","n">>),
                Word(<<"p","a","r","t">>)>>),
          WordB>>)

\* r"^chapter\d{2,}\b"
ReChapterNN ==
    Cat(<<Bol, Word(<<"c","h","a","p","t","e","r">>), Rep(Lit(Digits), 2, -1), WordB>>)

\* The mutant of ReChNN: no word boundary after the digits.
ReChNNUnbounded == Cat(<<Bol, Word(<<"c","h">>), Rep(Lit(Digits), 1, 3)>>)

\* r"^ch\d{1,3}\b"
ReChNN == Cat(<<Bol, Word(<<"c","h">>), Rep(Lit(Digits), 1, 3), WordB>>)

\* r"^[a-zA-Z]\s?\d{3,4}$"
ReShortMarker ==
    Cat(<<Bol, Lit(Letters), Opt(Lit(WhiteSpace)), Rep(Lit(Digits), 3, 4), Eol>>)

\* The mutant of the classifier: the abbreviated-chapter test sees the
\* title as written, not lower-cased, and without re.I.
IsGenericCaseSensitiveCh(val) ==
    IF ~Truthy(val) THEN TRUE
    ELSE LET stripped == Strip(val)
             lowered == ToLower(stripped)
         IN  \/ EndsWith(lowered, <<".","x","h","t","m","l">>)
             \/ EndsWith(lowered, <<".","h","t","m","l">>)
             \/ EndsWith(lowered, <<".","h","t","m">>)
             \/ Contains(lowered, <<"!","o","e","b","p","s","!">>)
             \/ Contains(stripped, <<"!","!">>)
             \/ Contains(lowered, <<"i","n","d","e","x","_","s","p","l","i","t">>)
             \/ Contains(lowered, <<"i","n","d","e","x"," ","s","p","l","i","t">>)
             \/ ReSearch(RePartSplit, lowered, FALSE) /= NoMatch
             \/ ReSearch(ReSplit, lowered, FALSE) /= NoMatch
             \/ ReMatchStart(ReIsbnLabel, lowered, TRUE) /= NoMatch
             \/ ReMatchStart(ReChapterNN, lowered, TRUE) /= NoMatch
             \/ ReMatchStart(ReChNN, stripped, FALSE) /= NoMatch
             \/ ReMatchStart(ReShortMarker, stripped, FALSE) /= NoMatch

_is_generic_chapter_title(val) ==
    IF ~Truthy(val) THEN TRUE
    ELSE LET stripped == Strip(val)
             lowered == ToLower(stripped)
         IN  \/ EndsWith(lowered, <<".","x","h","t","m","l">>)
             \/ EndsWith(lowered, <<".","h","t","m","l">>)
             \/ EndsWith(lowered, <<".","h","t","m">>)
             \/ Contains(lowered, <<"!","o","e","b","p","s","!">>)
             \/ Contains(stripped, <<"!","!">>)
             \/ Contains(lowered, <<"i","n","d","e","x","_","s","p","l","i","t">>)
             \/ Contains(lowered, <<"i","n","d","e","x"," ","s","p","l","i","t">>)
             \/ ReSearch(RePartSplit, lowered, FALSE) /= NoMatch
             \/ ReSearch(ReSplit, lowered, FALSE) /= NoMatch
             \/ ReMatchStart(ReIsbnLabel, lowered, TRUE) /= NoMatch
             \/ ReMatchStart(ReChapterNN, lowered, TRUE) /= NoMatch
             \/ ReMatchStart(ReChNN, lowered, TRUE) /= NoMatch
             \/ ReMatchStart(ReShortMarker, stripped, FALSE) /= NoMatch

\* The mutant of the cleaner: generic titles are dropped whatever the flag.
CleanTitleAlwaysSuppress(val, suppress_filename_like) ==
    IF ~Truthy(val) \/ ~Truthy(Strip(val)) \/ _is_generic_chapter_title(Strip(val)) THEN None
    ELSE Strip(val)

\* The mutant of the cleaner: one whitespace character is removed from each
\* end instead of all of them.
CleanTitleStripOnce(val, suppress_filename_like) ==
    IF ~Truthy(val) THEN None
    ELSE LET v == StripOnce(val)
         IN  IF ~Truthy(v) THEN None
             ELSE IF suppress_filename_like /\ _is_generic_chapter_title(v) THEN None
             ELSE v

_clean_title(val, suppress_filename_like) ==
    IF ~Truthy(val) THEN None
    ELSE LET v == Strip(val)
         IN  IF ~Truthy(v) THEN None
             ELSE IF suppress_filename_like /\ _is_generic_chapter_title(v) THEN None
             ELSE v

(***************************************************************************)
(* Context-string title extractor                                          *)
(***************************************************************************)
\* str.splitlines() breaks a string at these characters of the model
LineBreaks == {"\n", "\r", "\f"}

\* the characters of head[:n]
HeadLen == 400

\* lines[:n]: the number of leading lines the structured patterns examine
HeadLines == 3

\* the {1,80} of the remainder groups
RestCap == 80

\* s.splitlines(), from position i on
RECURSIVE SplitLinesFrom(_, _)
SplitLinesFrom(s, i) ==
    IF i > Len(s) THEN <<>>
    ELSE LET j == SkipTo(s, LineBreaks, i)
         IN  <<Slice(s, i, j - 1)>> \o SplitLinesFrom(s, j + 1)

\* [ln.strip() for ln in s.splitlines() if ln.strip()]
StrippedLines(s) ==
    LET ls == SplitLinesFrom(s, 1)
        st == [k \in 1..Len(ls) |-> Strip(ls[k])]
    IN  SelectSeq(st, LAMBDA ln : ln /= <<>>)

\* r"\b(Chapter|Part)\s+([0-9]{1,3}|[IVXLCDM]{1,8})(?:\s*[:\-<en><em>]\s*([^\n]{1,80}))?"
ReChapterPart ==
    Cat(<<WordB,
          Grp(1, Alt(<<Word(<<"C","h","a","p","t","e","r">>), Word(<<"P","a","r","t">>)>>)),
          Plus(Lit(WhiteSpace)),
          Grp(2, Alt(<<Rep(Lit(Digits), 1, 3), Rep(Lit(Roman), 1, 8)>>)),
          Opt(Cat(<<Star(Lit(WhiteSpace)), Lit(Dashes), Star(Lit(WhiteSpace)),
                    Grp(3, Rep(NotLit({"\n"}), 1, RestCap))>>))>>)

\* r"^(?:([0-9]{1,3}|[IVXLCDM]{1,8})\s*[\.\-:<en><em>]\s*)([^\n]{1,80})$"
ReNumbered ==
    Cat(<<Bol,
          Grp(1, Alt(<<Rep(Lit(Digits), 1, 3), Rep(Lit(Roman), 1, 8)>>)),
          Star(Lit(WhiteSpace)), Lit(Dashes \cup {"."}), Star(Lit(WhiteSpace)),
          Grp(2, Rep(NotLit({"\n"}), 1, RestCap)), Eol>>)

\* the list `common` of standalone section names
common ==
    <<Word(<<"I","n","t","r","o","d","u","c","t","i","o","n">>), Word(<<"P","r","e","f","a","c","e">>), Word(<<"P","r","o","l","o","g","u","e">>),
      Word(<<"E","p","i","l","o","g","u","e">>), Word(<<"F","o","r","e","w","o","r","d">>), Word(<<"A","f","t","e","r","w","o","r","d">>),
      Word(<<"C","o","n","c","l","u","s","i","o","n">>),
      Cat(<<Word(<<"A","c","k","n","o","w","l","e","d">>), Opt(Lit({"g"})), Word(<<"m","e","n","t","s">>)>>),
      Cat(<<Word(<<"A","p","p","e","n","d","i","x">>),
            Opt(Alt(<<Cat(<<Plus(Lit(WhiteSpace)), Lit(Upper_)>>),
                      Cat(<<Plus(Lit(WhiteSpace)), Rep(Lit(Roman), 1, 8)>>),
                      Cat(<<Plus(Lit(WhiteSpace)), Rep(Lit(Digits), 1, 3)>>)>>))>>)>>

\* The mutant of the heading: the word in the case written, no .title().
ChapterPartTitleAsWritten(s, m) ==
    LET kind == Group(s, m, 1)
        num == Group(s, m, 2)
        rest == Strip(Or(Group(s, m, 3), <<>>))
    IN  IF rest /= <<>> THEN kind \o <<" ">> \o num \o <<":"," ">> \o rest
        ELSE kind \o <<" ">> \o num

\* the title that a match m of ReChapterPart in s gives
ChapterPartTitle(s, m) ==
    LET kind == ToTitle(Group(s, m, 1))
        num == Group(s, m, 2)
        rest == Strip(Or(Group(s, m, 3), <<>>))
    IN  IF rest /= <<>> THEN kind \o <<" ">> \o num \o <<":"," ">> \o rest
        ELSE kind \o <<" ">> \o num

\* The mutant of rule 1: only the line lines[k] is tried.
Rule1FirstLineOnly(lines, k) ==
    IF k > Len(lines) THEN None
    ELSE LET Hit(m) == IF m /= NoMatch THEN ChapterPartTitle(lines[k], m) ELSE None
         IN  Hit(ReSearch(ReChapterPart, lines[k], TRUE))

\* rule 1 on lines[k..]: the title of the first line that matches
RECURSIVE Rule1(_, _)
Rule1(lines, k) ==
    IF k > Len(lines) THEN None
    ELSE LET Hit(m) ==
                 IF m /= NoMatch THEN ChapterPartTitle(lines[k], m)
                 ELSE Rule1(lines, k + 1)
         IN  Hit(ReSearch(ReChapterPart, lines[k], TRUE))

\* rule 2 on lines[k..]
RECURSIVE Rule2(_, _)
Rule2(lines, k) ==
    IF k > Len(lines) THEN None
    ELSE LET Title(m, rest) ==
                 IF m /= NoMatch /\ rest /= <<>>
                 THEN <<"S","e","c","t","i","o","n"," ">> \o Group(lines[k], m, 1) \o <<":"," ">> \o rest
                 ELSE Rule2(lines, k + 1)
             Hit(m) ==
                 Title(m, IF m = NoMatch THEN <<>> ELSE Strip(Or(Group(lines[k], m, 2), <<>>)))
         IN  Hit(ReMatchStart(ReNumbered, lines[k], TRUE))

\* rule 3 on lines[k..]
RECURSIVE Rule3(_, _)
Rule3(lines, k) ==
    IF k > Len(lines) THEN None
    ELSE IF \E p \in 1..Len(common) : ReFullMatch(common[p], lines[k], TRUE) /= NoMatch
         THEN lines[k]
         ELSE Rule3(lines, k + 1)

\* rule 4: the pattern of rule 1 in the whole context
Rule4(ctx) ==
    LET Hit(m) == IF m /= NoMatch THEN ChapterPartTitle(ctx, m) ELSE None
    IN  Hit(ReSearch(ReChapterPart, ctx, TRUE))

_title_from_context(context) ==
    IF ~Truthy(context) THEN None
    ELSE LET \* the first of the four rules' results that is a title
             First(t1, t2, t3, t4) ==
                 IF t1 /= None THEN t1
                 ELSE IF t2 /= None THEN t2
                 ELSE IF t3 /= None THEN t3
                 ELSE t4
             Rules(ctx, lines) ==
                 First(Rule1(lines, 1), Rule2(lines, 1), Rule3(lines, 1), Rule4(ctx))
             Lines(all) == Slice(all, 1, IF Len(all) < HeadLines THEN Len(all) ELSE HeadLines)
             Start(ctx) == Slice(ctx, 1, IF Len(ctx) < HeadLen THEN Len(ctx) ELSE HeadLen)
             Of(ctx) ==
                 IF ctx = <<>> THEN None
                 ELSE Rules(ctx, Lines(StrippedLines(Start(ctx))))
         IN  Of(Strip(context))

(***************************************************************************)
(* int() and str() of an int                                               *)
(***************************************************************************)
\* int(s) for a string of decimal digits
RECURSIVE StrToInt(_)
StrToInt(s) ==
    IF s = <<>> THEN 0
    ELSE 10 * StrToInt(Slice(s, 1, Len(s) - 1)) + DigitVal(s[Len(s)])

\* str(n) for n >= 0: no leading zeros
RECURSIVE IntToStr(_)
IntToStr(n) ==
    IF n < 10 THEN <<DigitSeq[n + 1]>>
    ELSE IntToStr(n \div 10) \o <<DigitSeq[(n % 10) + 1]>>

(***************************************************************************)
(* urllib.parse.urlparse(url).path                                         *)
(***************************************************************************)
\* the value that stands for a raised exception
Raised == <<"Raised">>

scheme_chars == Letters \cup Digits \cup {"+", "-", "."}

uses_params ==
    {<<>>, <<"f","t","p">>, <<"h","d","l">>, <<"p","r","o","s","p","e","r","o">>, <<"h","t","t","p">>, <<"i","m","a","p">>, <<"h","t","t","p","s">>, <<"s","h","t","t","p">>,
     <<"r","t","s","p">>, <<"r","t","s","p","s">>, <<"r","t","s","p","u">>, <<"s","i","p">>, <<"s","i","p","s">>, <<"m","m","s">>, <<"s","f","t","p">>, <<"t","e","l">>}

\* url.rfind(c), 1-based; 0 when c does not occur
RFind(s, c) == SkipBack(s, Range(s) \ {c}, Len(s))

\* _splitparams(url)[0]
SplitParamsPath(url) ==
    IF "/" \in Range(url)
    THEN LET from == RFind(url, "/")
             i == SkipTo(url, {";"}, from)
         IN  IF i > Len(url) THEN url ELSE Slice(url, 1, i - 1)
    ELSE Slice(url, 1, SkipTo(url, {";"}, 1) - 1)

\* The host between [ and ] of a netloc must be an IPv6 or IPvFuture address,
\* else urlsplit raises ValueError.  A host without ":" that does not start
\* with v is neither; the other hosts are taken to be valid.
BracketedHostRaises(netloc) ==
    LET host == Before(After(netloc, <<"[">>), <<"]">>)
    IN  ~Contains(host, <<":">>) /\ ~(host /= <<>> /\ LowerChar(host[1]) = "v")

\* urlparse(url).path, or Raised when urlsplit raises ValueError
UrlPath(url0) ==
    LET \* the path of the parts of a url; url is what follows the netloc
        Path(scheme, hasNetloc, netloc, url) ==
            IF hasNetloc /\ ("[" \in Range(netloc)) /= ("]" \in Range(netloc)) THEN Raised
            ELSE IF hasNetloc /\ "[" \in Range(netloc) /\ BracketedHostRaises(netloc) THEN Raised
            ELSE IF scheme \in uses_params /\ ";" \in Range(url) THEN SplitParamsPath(url)
            ELSE url
        \* url is what follows the scheme; delim is where its netloc ends
        SplitNetloc(scheme, url, hasNetloc, delim) ==
            Path(scheme, hasNetloc,
                 IF hasNetloc THEN Slice(url, 3, delim - 1) ELSE <<>>,
                 Before(Before(IF hasNetloc THEN Slice(url, delim, Len(url)) ELSE url,
                               <<"#">>), <<"?">>))
        AfterScheme(scheme, url) ==
            SplitNetloc(scheme, url, StartsWith(url, <<"/","/">>),
                        SkipTo(url, {"/", "?", "#"}, 3))
        \* i is the position of the first colon of url
        SplitScheme(url, i, hasScheme) ==
            AfterScheme(IF hasScheme THEN ToLower(Slice(url, 1, i - 1)) ELSE <<>>,
                        IF hasScheme THEN Slice(url, i + 1, Len(url)) ELSE url)
        FindScheme(url, i) ==
            SplitScheme(url, i, /\ i > 1
                                /\ url[1] \in Letters
                                /\ \A k \in 1..(i - 1) : url[k] \in scheme_chars)
        Split(url) == FindScheme(url, Find(url, <<":">>))
    IN  Split(Without(LStrip(url0, WhiteSpace), {"\t", "\r", "\n"}))

(***************************************************************************)
(* Fallback title deriver                                                  *)
(***************************************************************************)
\* re.split(r"[!/]+", s)[-1]: what follows the last ! or /
LastComponent(s) == Slice(s, SkipBack(s, Range(s) \ {"!", "/"}, Len(s)) + 1, Len(s))

\* r"\.(x?html?)$"
ReHtmlExt ==
    Cat(<<Lit({"."}), Opt(Lit({"x"})), Word(<<"h","t","m">>), Opt(Lit({"l"})), Eol>>)

\* re.sub(x, "", s): s without the leftmost match of x (x is anchored at the
\* end, so it has one match at most)
ReSubFirst(x, s, ic) ==
    LET Cut(m) ==
            IF m = NoMatch THEN s
            ELSE Slice(s, 1, m.start - 1) \o Slice(s, m.end, Len(s))
    IN  Cut(ReSearch(x, s, ic))

\* re.sub(r"<cs>+", " ", s): every run of characters of cs becomes one space
RECURSIVE CollapseRuns(_, _, _)
CollapseRuns(s, cs, i) ==
    IF i > Len(s) THEN <<>>
    ELSE IF s[i] \in cs THEN <<" ">> \o CollapseRuns(s, cs, SkipFwd(s, cs, i))
    ELSE <<s[i]>> \o CollapseRuns(s, cs, i + 1)

\* r"\s*0*(\d{1,5})": the number that follows a label
NumberTail ==
    Cat(<<Star(Lit(WhiteSpace)), Star(Lit({"0"})), Grp(1, Rep(Lit(Digits), 1, 5))>>)

\* r"(?i)(?:ch|chap|chapter)\s*0*(\d{1,5})"
ReFbChapter ==
    Cat(<<Alt(<<Word(<<"c","h">>), Word(<<"c","h","a","p">>), Word(<<"c","h","a","p","t","e","r">>)>>), NumberTail>>)

\* r"(?i)part\s*0*(\d{1,5})"
ReFbPart == Cat(<<Word(<<"p","a","r","t">>), NumberTail>>)

\* r"(?i)preface(?:\s*0*(\d{1,5}))?"
ReFbPreface == Cat(<<Word(<<"p","r","e","f","a","c","e">>), Opt(NumberTail)>>)

\* r"(?i)prolog(?:ue)?(?:\s*0*(\d{1,5}))?"
ReFbPrologue == Cat(<<Word(<<"p","r","o","l","o","g">>), Opt(Word(<<"u","e">>)), Opt(NumberTail)>>)

\* r"(?i)epilog(?:ue)?(?:\s*0*(\d{1,5}))?"
ReFbEpilogue == Cat(<<Word(<<"e","p","i","l","o","g">>), Opt(Word(<<"u","e">>)), Opt(NumberTail)>>)

\* r"(?i)appendix(?:\s+([A-Z]|[IVXLCDM]{1,8}|\d{1,3}))?"
ReFbAppendix ==
    Cat(<<Word(<<"a","p","p","e","n","d","i","x">>),
          Opt(Cat(<<Plus(Lit(WhiteSpace)),
                    Grp(1, Alt(<<Lit(Upper_), Rep(Lit(Roman), 1, 8),
                                 Rep(Lit(Digits), 1, 3)>>))>>))>>)

\* r"(?i)intro(?:duction)?(?:\s*0*(\d{1,5}))?"
ReFbIntro == Cat(<<Word(<<"i","n","t","r","o">>), Opt(Word(<<"d","u","c","t","i","o","n">>)), Opt(NumberTail)>>)

\* r"(?i)foreword(?:\s*0*(\d{1,5}))?"
ReFbForeword == Cat(<<Word(<<"f","o","r","e","w","o","r","d">>), Opt(NumberTail)>>)

\* r"(?i)afterword(?:\s*0*(\d{1,5}))?"
ReFbAfterword == Cat(<<Word(<<"a","f","t","e","r","w","o","r","d">>), Opt(NumberTail)>>)

\* r"(?i)\bchapter\s*0*(\d{1,5})\b" and the same for part and epub
ReFbIn(label) == Cat(<<WordB, Word(label), NumberTail, WordB>>)

\* f"{label} {int(num)}", int(num) printed without leading zeros
LabelInt(label, num) == label \o <<" ">> \o IntToStr(StrToInt(num))

\* f"{label} {int(num)}" if num else label
LabelOptInt(label, num) == IF Truthy(num) THEN LabelInt(label, num) ELSE label

\* The mutant of AppendixLabel: a numeric suffix is emitted as an integer.
AppendixLabelAsInteger(suffix) ==
    IF ~Truthy(suffix) THEN <<"A","p","p","e","n","d","i","x">>
    ELSE IF \A k \in 1..Len(suffix) : suffix[k] \in Digits
    THEN <<"A","p","p","e","n","d","i","x"," ">> \o IntToStr(StrToInt(suffix))
    ELSE <<"A","p","p","e","n","d","i","x"," ">> \o suffix

\* f"Appendix {suffix}" if suffix else "Appendix": the suffix as matched
AppendixLabel(suffix) ==
    IF Truthy(suffix) THEN <<"A","p","p","e","n","d","i","x"," ">> \o suffix
    ELSE <<"A","p","p","e","n","d","i","x">>

\* the cleaned file name of the identifier (lines 70-80), or Raised
FallbackName(content_id) ==
    LET Base(tail) == Before(IF Truthy(tail) THEN LastComponent(tail) ELSE <<>>, <<"#">>)
        Name(base) ==
            Strip(CollapseRuns(CollapseRuns(ReSubFirst(ReHtmlExt, base, TRUE),
                                            {"_", "-"}, 1),
                               WhiteSpace, 1))
        OfPath(p) ==
            IF p = Raised THEN Raised
            ELSE Name(Base(Or(_tail_after_bang_bang_no_fragment(content_id), unquote(p))))
    IN  OfPath(UrlPath(content_id))

\* the label patterns and the last resort (lines 82-136) on a cleaned name
FallbackLabel(name) ==
    LET G(x) == Group(name, ReFullMatch(x, name, TRUE), 1)
        F(x) == ReFullMatch(x, name, TRUE) /= NoMatch
        H(l) == ReSearch(ReFbIn(l), name, TRUE)
    IN  IF F(ReFbChapter) THEN LabelInt(<<"C","h","a","p","t","e","r">>, G(ReFbChapter))
        ELSE IF F(ReFbPart) THEN LabelInt(<<"P","a","r","t">>, G(ReFbPart))
        ELSE IF F(ReFbPreface) THEN LabelOptInt(<<"P","r","e","f","a","c","e">>, G(ReFbPreface))
        ELSE IF F(ReFbPrologue) THEN LabelOptInt(<<"P","r","o","l","o","g","u","e">>, G(ReFbPrologue))
        ELSE IF F(ReFbEpilogue) THEN LabelOptInt(<<"E","p","i","l","o","g","u","e">>, G(ReFbEpilogue))
        ELSE IF F(ReFbAppendix) THEN AppendixLabel(G(ReFbAppendix))
        ELSE IF F(ReFbIntro) THEN LabelOptInt(<<"I","n","t","r","o","d","u","c","t","i","o","n">>, G(ReFbIntro))
        ELSE IF F(ReFbForeword) THEN LabelOptInt(<<"F","o","r","e","w","o","r","d">>, G(ReFbForeword))
        ELSE IF F(ReFbAfterword) THEN LabelOptInt(<<"A","f","t","e","r","w","o","r","d">>, G(ReFbAfterword))
        ELSE IF H(<<"c","h","a","p","t","e","r">>) /= NoMatch
             THEN LabelInt(<<"C","h","a","p","t","e","r">>, Group(name, H(<<"c","h","a","p","t","e","r">>), 1))
        ELSE IF H(<<"p","a","r","t">>) /= NoMatch
             THEN LabelInt(<<"P","a","r","t">>, Group(name, H(<<"p","a","r","t">>), 1))
        ELSE IF H(<<"e","p","u","b">>) /= NoMatch
             THEN LabelInt(<<"E","P","U","B">>, Group(name, H(<<"e","p","u","b">>), 1))
        ELSE IF name /= <<>> THEN name ELSE None

\* The mutant of the deriver: no try/except around the body.
FallbackUncaught(content_id) ==
    LET Label(name) == IF name = Raised THEN Raised ELSE FallbackLabel(name)
    IN  IF ~Truthy(content_id) THEN None ELSE Label(FallbackName(content_id))

_fallback_title_from_content_id(content_id) ==
    LET Label(name) == IF name = Raised THEN None ELSE FallbackLabel(name)
    IN  IF ~Truthy(content_id) THEN None ELSE Label(FallbackName(content_id))

(***************************************************************************)
(* Tail-similarity scorer                                                  *)
(***************************************************************************)
_basename_no_ext(tail) ==
    IF ~Truthy(tail) THEN <<>>
    ELSE ReSubFirst(ReHtmlExt, LastComponent(tail), TRUE)

\* re.findall(r"\d{1,6}", s) as integers: every run of digits, cut into
\* pieces of six digits at most
RECURSIVE ExtractNumbersFrom(_, _)
ExtractNumbersFrom(s, i) ==
    IF i > Len(s) THEN <<>>
    ELSE IF s[i] \notin Digits THEN ExtractNumbersFrom(s, i + 1)
    ELSE LET e == SkipFwd(s, Digits, i)
             j == IF e - i > 6 THEN i + 6 ELSE e
         IN  <<StrToInt(Slice(s, i, j - 1))>> \o ExtractNumbersFrom(s, j)

_extract_numbers(s) == ExtractNumbersFrom(s, 1)

\* re.split(r"[!/]+", s), from position i on, without the empty pieces
RECURSIVE SplitDirsFrom(_, _)
SplitDirsFrom(s, i) ==
    IF i > Len(s) THEN <<>>
    ELSE IF s[i] \in {"!", "/"} THEN SplitDirsFrom(s, i + 1)
    ELSE LET j == SkipTo(s, {"!", "/"}, i)
         IN  <<Slice(s, i, j - 1)>> \o SplitDirsFrom(s, j)

_split_dirs(tail) == IF ~Truthy(tail) THEN <<>> ELSE SplitDirsFrom(tail, 1)

\* the length of the common prefix of two lists (the zip loop)
RECURSIVE CommonPrefix(_, _, _)
CommonPrefix(a, b, k) ==
    IF k <= Len(a) /\ k <= Len(b) /\ a[k] = b[k] THEN CommonPrefix(a, b, k + 1)
    ELSE k - 1

Abs(x) == IF x < 0 THEN -x ELSE x

Min(x, y) == IF x < y THEN x ELSE y

Max(x, y) == IF x > y THEN x ELSE y

\* The mutant of the scorer: the numbers are taken from the whole tails.
ScoreByTailNumbers(cur_tail0, cand_tail) ==
    IF ~Truthy(cand_tail) THEN 0
    ELSE LET Numbers(cur_nums, cand_nums) ==
                 IF cur_nums /= <<>> /\ cand_nums /= <<>>
                 THEN Max(0, 50 - Min(Abs(cur_nums[1] - cand_nums[1]), 50)) ELSE 0
             Dirs(cur_dirs, cand_dirs) ==
                 IF cur_dirs /= <<>> /\ cand_dirs /= <<>>
                 THEN Min(CommonPrefix(cur_dirs, cand_dirs, 1) * 5, 20) ELSE 0
             Bases(cur_base, cand_base) ==
                 IF cur_base /= <<>> /\ cand_base /= <<>> /\ cur_base = cand_base
                 THEN 80 ELSE 0
             Score(cur_tail) ==
                 (IF cand_tail = cur_tail THEN 100 ELSE 0)
                 + Bases(_basename_no_ext(cur_tail), _basename_no_ext(cand_tail))
                 + Numbers(_extract_numbers(cur_tail), _extract_numbers(cand_tail))
                 + Dirs(_split_dirs(cur_tail), _split_dirs(cand_tail))
         IN  Score(Or(cur_tail0, <<>>))

\* The mutant of the scorer: the shared directories count without a cap.
ScoreDirsUncapped(cur_tail0, cand_tail) ==
    IF ~Truthy(cand_tail) THEN 0
    ELSE LET Numbers(cur_nums, cand_nums) ==
                 IF cur_nums /= <<>> /\ cand_nums /= <<>>
                 THEN Max(0, 50 - Min(Abs(cur_nums[1] - cand_nums[1]), 50)) ELSE 0
             Dirs(cur_dirs, cand_dirs) ==
                 IF cur_dirs /= <<>> /\ cand_dirs /= <<>>
                 THEN CommonPrefix(cur_dirs, cand_dirs, 1) * 5 ELSE 0
             Bases(cur_base, cand_base) ==
                 (IF cur_base /= <<>> /\ cand_base /= <<>> /\ cur_base = cand_base
                  THEN 80 ELSE 0)
                 + Numbers(_extract_numbers(cur_base), _extract_numbers(cand_base))
             Score(cur_tail) ==
                 (IF cand_tail = cur_tail THEN 100 ELSE 0)
                 + Bases(_basename_no_ext(cur_tail), _basename_no_ext(cand_tail))
                 + Dirs(_split_dirs(cur_tail), _split_dirs(cand_tail))
         IN  Score(Or(cur_tail0, <<>>))

_score_tail_similarity(cur_tail0, cand_tail) ==
    IF ~Truthy(cand_tail) THEN 0
    ELSE LET Numbers(cur_nums, cand_nums) ==
                 IF cur_nums /= <<>> /\ cand_nums /= <<>>
                 THEN Max(0, 50 - Min(Abs(cur_nums[1] - cand_nums[1]), 50)) ELSE 0
             Dirs(cur_dirs, cand_dirs) ==
                 IF cur_dirs /= <<>> /\ cand_dirs /= <<>>
                 THEN Min(CommonPrefix(cur_dirs, cand_dirs, 1) * 5, 20) ELSE 0
             Bases(cur_base, cand_base) ==
                 (IF cur_base /= <<>> /\ cand_base /= <<>> /\ cur_base = cand_base
                  THEN 80 ELSE 0)
                 + Numbers(_extract_numbers(cur_base), _extract_numbers(cand_base))
             Score(cur_tail) ==
                 (IF cand_tail = cur_tail THEN 100 ELSE 0)
                 + Bases(_basename_no_ext(cur_tail), _basename_no_ext(cand_tail))
                 + Dirs(_split_dirs(cur_tail), _split_dirs(cand_tail))
         IN  Score(Or(cur_tail0, <<>>))

(***************************************************************************)
(* Comparison of str and of the tuples (int, int, str)                     *)
(***************************************************************************)
\* ord(c)
Ord(c) ==
    IF c = "ENDASH" THEN 8211
    ELSE IF c = "EMDASH" THEN 8212
    ELSE IF c = "U+FFFD" THEN 65533
    ELSE CHOOSE b \in 0..127 : Chr(b) = c

\* a > b for two str
RECURSIVE StrGreaterFrom(_, _, _)
StrGreaterFrom(a, b, k) ==
    IF k > Len(a) THEN FALSE
    ELSE IF k > Len(b) THEN TRUE
    ELSE IF a[k] = b[k] THEN StrGreaterFrom(a, b, k + 1)
    ELSE Ord(a[k]) > Ord(b[k])

StrGreater(a, b) == StrGreaterFrom(a, b, 1)

\* The mutant of the comparison: the scores alone are compared.
TupGreaterScoreOnly(x, y) == x[1] > y[1]

\* The mutant of the comparison: the titles themselves are not compared.
TupGreaterNoTitle(x, y) ==
    \/ x[1] > y[1]
    \/ x[1] = y[1] /\ x[2] > y[2]

\* x > y for two tuples (int, int, str)
TupGreater(x, y) ==
    \/ x[1] > y[1]
    \/ x[1] = y[1] /\ x[2] > y[2]
    \/ x[1] = y[1] /\ x[2] = y[2] /\ StrGreater(x[3], y[3])

(***************************************************************************)
(* dict                                                                    *)
(***************************************************************************)
\* d.get(k)
Get(d, k) == IF k \in DOMAIN d THEN d[k] ELSE None

\* d.get(k) or []
GetList(d, k) == IF k \in DOMAIN d THEN d[k] ELSE <<>>

\* d.get(k) for a dict of rows; <<>> stands for "no row", <<row>> for a row
GetRow(d, k) == IF k \in DOMAIN d THEN <<d[k]>> ELSE <<>>

\* d[k] = v
Put(d, k, v) == [x \in DOMAIN d \cup {k} |-> IF x = k THEN v ELSE d[x]]

\* d.setdefault(k, v)
SetDefault(d, k, v) == IF k \in DOMAIN d THEN d ELSE Put(d, k, v)

\* The mutant of AppendTo: the record goes to the front of the list.
AppendToFront(d, k, v) == Put(d, k, <<v>> \o GetList(d, k))

\* d.setdefault(k, []).append(v)
AppendTo(d, k, v) == Put(d, k, Append(GetList(d, k), v))

\* the empty dict
EmptyDict == [x \in {} |-> <<>>]

(***************************************************************************)
(* Chapter title resolver.  A call of determine_chapter_title is the       *)
(* record a of its arguments: a.r (the bookmark row), a.ch_row (<<>> or    *)
(* <<row>>), a.cont_id, a.cont_id_no_frag, a.frag_base, a.pre_bang, the    *)
(* four indices and a.suppress_filename_like.  Stage k is the k-th block  *)
(* of the function body, as a function of the ch_title it finds.           *)
(***************************************************************************)
\* t.lower() == "table of contents"
IsToc(t) == ToLower(t) = <<"t","a","b","l","e"," ","o","f"," ","c","o","n","t","e","n","t","s">>

\* the offsets (1, 2, 3, 4, 5) of the sibling-tail probe
MaxSibling == 5

\* int(depth_raw): [ok |-> FALSE] when int() raises ValueError
ParseInt(s0) ==
    LET WellFormed(d) == /\ d /= <<>>
                         /\ \A k \in 1..Len(d) : d[k] \in Digits \cup {"_"}
                         /\ d[1] /= "_" /\ d[Len(d)] /= "_"
                         /\ ~Contains(d, <<"_","_">>)
        Value(negative, d) ==
            IF ~WellFormed(d) THEN [ok |-> FALSE, v |-> 0]
            ELSE [ok |-> TRUE,
                  v |-> (IF negative THEN -1 ELSE 1) * StrToInt(Without(d, {"_"}))]
        Signed(s, signed) ==
            Value(signed /\ s[1] = "-", IF signed THEN Slice(s, 2, Len(s)) ELSE s)
        Of(s) == Signed(s, s /= <<>> /\ s[1] \in {"+", "-"})
    IN  Of(Strip(s0))

\* depth of a candidate row: int(Depth) when Depth is present, 0 when it is
\* absent or int() raises
DepthOf(cr) ==
    LET Depth(parsed) == IF parsed.ok THEN parsed.v ELSE 0
        Of(depth_raw) == IF depth_raw = None THEN 0 ELSE Depth(ParseInt(depth_raw))
    IN  Of(Get(cr, "Depth"))

\* The mutant of the loop of stages 3, 5 and 7: a row that scores 0 is
\* no candidate.
RECURSIVE BestScoredPositive(_, _, _, _, _)
BestScoredPositive(cand_rows, k, best, cur_tail, suppress) ==
    IF k > Len(cand_rows) THEN best
    ELSE LET Rest(b) == BestScoredPositive(cand_rows, k + 1, b, cur_tail, suppress)
             Keep(tup) ==
                 IF tup[1] > 0 /\ TupGreater(tup, best) THEN Rest(tup) ELSE Rest(best)
             Row(t, cand_tail) ==
                 IF ~Truthy(t) \/ IsToc(t) THEN Rest(best)
                 ELSE Keep(<<_score_tail_similarity(cur_tail, cand_tail), Len(t), t>>)
         IN  Row(_clean_title(Get(cand_rows[k], "Title"), suppress),
                 _tail_after_bang_bang_no_fragment(Get(cand_rows[k], "ContentID")))

\* the loop of stages 3, 5 and 7 from row k on: the greatest tuple
\* (score, length, title) over the rows whose cleaned title is usable
RECURSIVE BestScored(_, _, _, _, _)
BestScored(cand_rows, k, best, cur_tail, suppress) ==
    IF k > Len(cand_rows) THEN best
    ELSE LET Rest(b) == BestScored(cand_rows, k + 1, b, cur_tail, suppress)
             Keep(tup) == IF TupGreater(tup, best) THEN Rest(tup) ELSE Rest(best)
             Row(t, cand_tail) ==
                 IF ~Truthy(t) \/ IsToc(t) THEN Rest(best)
                 ELSE Keep(<<_score_tail_similarity(cur_tail, cand_tail), Len(t), t>>)
         IN  Row(_clean_title(Get(cand_rows[k], "Title"), suppress),
                 _tail_after_bang_bang_no_fragment(Get(cand_rows[k], "ContentID")))

\* The mutant of the loop of stage 4: a table of contents is a candidate.
RECURSIVE BestLongestWithToc(_, _, _, _, _)
BestLongestWithToc(cand_rows, k, best_title, best_len, suppress) ==
    IF k > Len(cand_rows) THEN best_title
    ELSE LET Row(t) ==
                 IF Truthy(t) /\ Len(t) > best_len
                 THEN BestLongestWithToc(cand_rows, k + 1, t, Len(t), suppress)
                 ELSE BestLongestWithToc(cand_rows, k + 1, best_title, best_len, suppress)
         IN  Row(_clean_title(Get(cand_rows[k], "Title"), suppress))

\* the loop of stage 4 from row k on: the first title of greatest length
RECURSIVE BestLongest(_, _, _, _, _)
BestLongest(cand_rows, k, best_title, best_len, suppress) ==
    IF k > Len(cand_rows) THEN best_title
    ELSE LET Row(t) ==
                 IF Truthy(t) /\ ~IsToc(t) /\ Len(t) > best_len
                 THEN BestLongest(cand_rows, k + 1, t, Len(t), suppress)
                 ELSE BestLongest(cand_rows, k + 1, best_title, best_len, suppress)
         IN  Row(_clean_title(Get(cand_rows[k], "Title"), suppress))

\* the inner loop of stage 6 from row k on: the greatest tuple
\* (depth, length, title)
RECURSIVE BestDeepest(_, _, _, _)
BestDeepest(cand_rows, k, best_key, suppress) ==
    IF k > Len(cand_rows) THEN best_key
    ELSE LET Rest(b) == BestDeepest(cand_rows, k + 1, b, suppress)
             Keep(tup) == IF TupGreater(tup, best_key) THEN Rest(tup) ELSE Rest(best_key)
             Row(t) ==
                 IF ~Truthy(t) \/ IsToc(t) THEN Rest(best_key)
                 ELSE Keep(<<DepthOf(cand_rows[k]), Len(t), t>>)
         IN  Row(_clean_title(Get(cand_rows[k], "Title"), suppress))

\* the outer loop of stage 6 from offset n on: the best title of the first
\* offset that has one, <<>> when no offset has
RECURSIVE SiblingTitle(_, _, _, _)
SiblingTitle(content_by_tail, tail, n, suppress) ==
    IF n > MaxSibling THEN <<>>
    ELSE LET Pick(best) ==
                 IF Truthy(best[3]) THEN best[3]
                 ELSE SiblingTitle(content_by_tail, tail, n + 1, suppress)
         IN  Pick(BestDeepest(GetList(content_by_tail, tail \o <<"-">> \o IntToStr(n)),
                              1, <<-1, -1, <<>>>>, suppress))

NoBest == <<-1, -1, <<>>>>

\* The mutant of stage 1: the Title of the matched record as it is stored.
Stage1Stored(ch_title, a) ==
    IF a.ch_row /= <<>> THEN Get(a.ch_row[1], "Title") ELSE None

\* 1: the matched record's own Title (lines 338-341)
Stage1(ch_title, a) ==
    _clean_title(IF a.ch_row /= <<>> THEN Get(a.ch_row[1], "Title") ELSE None,
                 a.suppress_filename_like)

\* 2: a title mined from ContextString (lines 344-352)
Stage2(ch_title, a) ==
    IF Truthy(ch_title) THEN ch_title
    ELSE LET Pick(ctx_title) ==
                 IF Truthy(ctx_title)
                 THEN _clean_title(ctx_title, a.suppress_filename_like)
                 ELSE ch_title
         IN  Pick(_title_from_context(Get(a.r, "ContextString")))

\* 3: the rows that share the fragment base (lines 355-371)
Stage3(ch_title, a) ==
    IF Truthy(ch_title) \/ ~Truthy(a.frag_base) THEN ch_title
    ELSE LET Pick(best_fb) == IF Truthy(best_fb[3]) THEN best_fb[3] ELSE ch_title
         IN  Pick(BestScored(GetList(a.content_by_frag_base, a.frag_base), 1, NoBest,
                             _tail_after_bang_bang_no_fragment(a.cont_id),
                             a.suppress_filename_like))

\* 4: the rows of the same tail (lines 374-390)
Stage4(ch_title, a) ==
    IF Truthy(ch_title) THEN ch_title
    ELSE LET Pick(tail, best_title) ==
                 IF Truthy(tail) /\ Truthy(best_title) THEN best_title ELSE ch_title
             Rows(tail) ==
                 Pick(tail, BestLongest(GetList(a.content_by_tail, tail), 1, None, -1,
                                        a.suppress_filename_like))
         IN  Rows(_tail_after_bang_bang_no_fragment(a.cont_id))

\* 5: the rows of the same pNNN anchor (lines 393-411)
Stage5(ch_title, a) ==
    IF Truthy(ch_title) THEN ch_title
    ELSE LET Pick(pa, best_pa) ==
                 IF Truthy(pa) /\ Truthy(best_pa[3]) THEN best_pa[3] ELSE ch_title
             Rows(pa) ==
                 Pick(pa, BestScored(GetList(a.content_by_p_anchor, pa), 1, NoBest,
                                     _tail_after_bang_bang_no_fragment(a.cont_id),
                                     a.suppress_filename_like))
         IN  Rows(_p_anchor(a.cont_id))

\* 6: the sibling tails tail-1 .. tail-5 (lines 414-439)
Stage6(ch_title, a) ==
    IF Truthy(ch_title) THEN ch_title
    ELSE LET Pick(tail, best_title) ==
                 IF Truthy(tail) /\ Truthy(best_title) THEN best_title ELSE ch_title
             Rows(tail) ==
                 Pick(tail, SiblingTitle(a.content_by_tail, tail, 1, a.suppress_filename_like))
         IN  Rows(_tail_after_bang_bang_no_fragment(a.cont_id))

\* 7: the rows of the same pre-bang (lines 442-458)
Stage7(ch_title, a) ==
    IF Truthy(ch_title) \/ ~Truthy(a.pre_bang) THEN ch_title
    ELSE LET Pick(best) == IF Truthy(best[3]) THEN best[3] ELSE ch_title
         IN  Pick(BestScored(GetList(a.content_by_pre_bang, a.pre_bang), 1, NoBest,
                             _tail_after_bang_bang_no_fragment(a.cont_id),
                             a.suppress_filename_like))

\* The mutant of stage 8: the synthesized title is never suppressed.
Stage8Unsuppressed(ch_title, a) ==
    IF Truthy(ch_title) THEN ch_title
    ELSE _clean_title(_fallback_title_from_content_id(Or(a.cont_id_no_frag, a.cont_id)), FALSE)

\* 8: the fallback from the content identifier (lines 461-463)
Stage8(ch_title, a) ==
    IF Truthy(ch_title) THEN ch_title
    ELSE _clean_title(_fallback_title_from_content_id(Or(a.cont_id_no_frag, a.cont_id)),
                      a.suppress_filename_like)

\* the number of stages
NStages == 8

\* The mutant of RunStage: stage 4 assigns without testing `not ch_title`.
RunStageOverride(k, ch_title, a) ==
    CASE k = 1 -> Stage1(ch_title, a)
      [] k = 2 -> Stage2(ch_title, a)
      [] k = 3 -> Stage3(ch_title, a)
      [] k = 4 -> IF Truthy(Stage4(None, a)) THEN Stage4(None, a) ELSE ch_title
      [] k = 5 -> Stage5(ch_title, a)
      [] k = 6 -> Stage6(ch_title, a)
      [] k = 7 -> Stage7(ch_title, a)
      [] k = 8 -> Stage8(ch_title, a)

\* The mutant of RunStage: the first block keeps a title it finds set.
RunStageSticky(k, ch_title, a) ==
    CASE k = 1 -> IF Truthy(ch_title) THEN ch_title ELSE Stage1(ch_title, a)
      [] k = 2 -> Stage2(ch_title, a)
      [] k = 3 -> Stage3(ch_title, a)
      [] k = 4 -> Stage4(ch_title, a)
      [] k = 5 -> Stage5(ch_title, a)
      [] k = 6 -> Stage6(ch_title, a)
      [] k = 7 -> Stage7(ch_title, a)
      [] k = 8 -> Stage8(ch_title, a)

\* block k of the body, run on the ch_title that block k-1 left
RunStage(k, ch_title, a) ==
    CASE k = 1 -> Stage1(ch_title, a)
      [] k = 2 -> Stage2(ch_title, a)
      [] k = 3 -> Stage3(ch_title, a)
      [] k = 4 -> Stage4(ch_title, a)
      [] k = 5 -> Stage5(ch_title, a)
      [] k = 6 -> Stage6(ch_title, a)
      [] k = 7 -> Stage7(ch_title, a)
      [] k = 8 -> Stage8(ch_title, a)

\* the blocks 1..k in order
RECURSIVE RunStages(_, _)
RunStages(k, a) == IF k = 0 THEN None ELSE RunStage(k, RunStages(k - 1, a), a)

determine_chapter_title(a) == RunStages(NStages, a)

(***************************************************************************)
(* export_highlights: the content table is read row by row into the nine   *)
(* indices, the bookmarks are fetched in DateCreated order, and the        *)
(* chapter title of every bookmark is resolved and written.  The content   *)
(* table is the sequence of its rows in scan order, the Bookmark table the *)
(* set of its rows.  A content row                                         *)
(* is a record with the columns ContentID, BookID, Title and ContentURL; a *)
(* bookmark row has BookmarkID, ContentID, ContextString and DateCreated.  *)
(* The columns that only feed the book title, the author and the colour of *)
(* the CSV line are left out, and so are those fields of the line.         *)
(***************************************************************************)
ContentRow(id, book, title, url) ==
    [ContentID |-> id, BookID |-> book, Title |-> title, ContentURL |-> url]

BookmarkRow(bid, id, ctx, date) ==
    [BookmarkID |-> bid, ContentID |-> id, ContextString |-> ctx, DateCreated |-> date]

\* the rows the content table may hold
ContentRows ==
    { ContentRow(<<"b","k","!","!","t","/","c","6",".","h","t","m","l">>, <<"b","k">>, <<"S","i","x">>, None),
      ContentRow(<<"/","b",".","x","h","t","m","l","#","p","1","0">>, None, <<"N","o","t","e","s">>, None),
      ContentRow(<<"/","b",".","x","h","t","m","l","#","p","1","0","-","1">>, None, <<"C","h","a","p","t","e","r"," ","5">>, None),
      ContentRow(<<"o","t","h","e","r","!","!","t","/","c","6",".","h","t","m","l">>, <<"o","t","h","e","r">>, <<" ","S","i","x","t","h"," ">>, None),
      ContentRow(<<"z","z","!","!","u","/","d",".","h","t","m","l","#","p","1">>, <<"z","z">>, <<"D","e","e">>, None),
      ContentRow(<<"b","k","!","!","t","/","c","6",".","h","t","m","l","-","1">>, <<"b","k">>, <<"S","i","x"," ","O","n","e">>, None),
      ContentRow(<<"b","k","!","!","t","/","o","t","h","e","r",".","h","t","m","l">>, <<"b","k">>, <<"c","h","3">>, None),
      ContentRow(<<"b","k","!","!","t","/","c","%","3","6",".","h","t","m","l">>, <<"b","k">>, <<"T","a","b","l","e"," ","o","f"," ","C","o","n","t","e","n","t","s">>, None),
      ContentRow(<<"n","9">>, <<"b","k">>, <<"N","i","n","e">>, <<"b","k","!","!","t","/","c","6",".","h","t","m","l">>),
      ContentRow(<<"b","k","!","!","#","p","1">>, <<>>, <<"E","x">>, None) }

\* the rows of the Bookmark table that pass the WHERE clause of the query
BookmarkRows ==
    { BookmarkRow(<<"1">>, <<"b","k","!","!","t","/","c","6",".","h","t","m","l","#","p","1">>, None, <<"2","0","2","4","-","0","1","-","0","1">>),
      BookmarkRow(<<"2">>, <<"/","b",".","x","h","t","m","l","#","p","1","0","-","2">>, <<"J","u","s","t"," ","s","o","m","e"," ","p","r","o","s","e",".">>, <<"2","0","2","4","-","0","1","-","0","2">>),
      BookmarkRow(<<"3">>, <<"b","k","!","!","t","/","c","h","a","p","t","e","r","0","0","7",".","x","h","t","m","l","#","x">>, None, <<"2","0","2","4","-","0","1","-","0","3">>),
      BookmarkRow(<<"4">>, <<"q","!","!","i","n","d","e","x","_","s","p","l","i","t","_","0","0","0",".","h","t","m","l">>, <<"C","h","a","p","t","e","r"," ","4",":"," ","T","h","e"," ","A","w","a","k","e","n","i","n","g","\n","I","t"," ","b","e","g","a","n",".">>, <<"2","0","2","4","-","0","1","-","0","1">>),
      BookmarkRow(<<"5">>, None, None, <<"2","0","2","4","-","0","1","-","0","5">>) }

\* the greatest number of rows of the content table
MaxRecords == 2

\* the greatest number of rows of the Bookmark table
MaxRows == 2

\* the sequences of at most n distinct elements of S
SeqsUpTo(S, n) ==
    UNION { { s \in [1..k -> S] : \A p, q \in 1..k : p /= q => s[p] /= s[q] } : k \in 0..n }

\* the subsets of S of n elements at most
SubsetsUpTo(S, n) == { T \in SUBSET S : Cardinality(T) <= n }

\* ORDER BY DateCreated: the orders of the rows of the table in which no
\* row comes before a row of a smaller date
OrderByDateCreated(table) ==
    { s \in [1..Cardinality(table) -> table] :
        /\ \A p, q \in DOMAIN s : p /= q => s[p] /= s[q]
        /\ \A p, q \in DOMAIN s : p < q => ~StrGreater(s[p].DateCreated, s[q].DateCreated) }

\* the arguments of the resolver call for bookmark r (lines 323-366)
CallOf(r, by_id, by_id_norm, by_url, by_url_norm, by_frag_base, by_pre_bang, by_p_anchor, by_tail, suppress) ==
    LET \* `if ch_row is None and id: ch_row = index.get(key)`
        Try(ch_row, id, index, key) ==
            IF ch_row = <<>> /\ Truthy(id) THEN GetRow(index, key) ELSE ch_row
        \* the lookups of lines 337-353 in their order
        Row(cont_id, cont_id_no_frag, nid, nid_no_frag) ==
            Try(Try(Try(Try(Try(Try(Try(Try(<<>>,
                cont_id, by_id, cont_id),
                cont_id, by_id_norm, nid),
                cont_id_no_frag, by_id, cont_id_no_frag),
                cont_id_no_frag, by_id_norm, nid_no_frag),
                cont_id, by_url, cont_id),
                cont_id_no_frag, by_url, cont_id_no_frag),
                cont_id, by_url_norm, nid),
                cont_id_no_frag, by_url_norm, nid_no_frag)
        Args(cont_id, cont_id_no_frag) ==
            [r |-> r,
             ch_row |-> Row(cont_id, cont_id_no_frag, Or(_normalize_id(cont_id), <<>>),
                            Or(_normalize_id(cont_id_no_frag), <<>>)),
             cont_id |-> cont_id, cont_id_no_frag |-> cont_id_no_frag,
             frag_base |-> _fragment_base(cont_id), pre_bang |-> _pre_bang(cont_id),
             content_by_frag_base |-> by_frag_base, content_by_pre_bang |-> by_pre_bang,
             content_by_p_anchor |-> by_p_anchor, content_by_tail |-> by_tail,
             suppress_filename_like |-> suppress]
        Ids(cont_id) == Args(cont_id, _strip_fragment(cont_id))
    IN  Ids(Get(r, "ContentID"))

\* d[k] = v when k is truthy, d otherwise
PutIf(d, k, v) == IF Truthy(k) THEN Put(d, k, v) ELSE d

\* d.setdefault(k, v) when k is truthy
SetDefaultIf(d, k, v) == IF Truthy(k) THEN SetDefault(d, k, v) ELSE d

\* d.setdefault(k, []).append(v) when k is truthy
AppendIf(d, k, v) == IF Truthy(k) THEN AppendTo(d, k, v) ELSE d

VARIABLES
    content, Bookmark, suppress_filename_chapter_titles,
    content_by_id, content_by_id_norm, content_by_url, content_by_url_norm,
    content_by_frag_base, content_by_pre_bang, content_by_book, content_by_tail,
    content_by_p_anchor,
    loaded, rows, pc, a, stage, ch_title, out, written, call, ret

indices ==
    <<content_by_id, content_by_id_norm, content_by_url, content_by_url_norm,
      content_by_frag_base, content_by_pre_bang, content_by_book, content_by_tail,
      content_by_p_anchor>>

tables == <<content, Bookmark, suppress_filename_chapter_titles>>

vars == <<tables, indices, loaded, rows, pc, a, stage, ch_title, out, written, call, ret>>

\* the call record of the harness of the pure functions, idle in Spec
NoCall == [fn |-> "none", args |-> <<>>]

\* lines 209-231: the arguments, the tables of the database, empty indices
Init ==
    /\ content \in SeqsUpTo(ContentRows, MaxRecords)
    /\ Bookmark \in SubsetsUpTo(BookmarkRows, MaxRows)
    /\ suppress_filename_chapter_titles \in BOOLEAN
    /\ content_by_id = EmptyDict /\ content_by_id_norm = EmptyDict
    /\ content_by_url = EmptyDict /\ content_by_url_norm = EmptyDict
    /\ content_by_frag_base = EmptyDict /\ content_by_pre_bang = EmptyDict
    /\ content_by_book = EmptyDict /\ content_by_tail = EmptyDict
    /\ content_by_p_anchor = EmptyDict
    /\ loaded = 0 /\ rows = <<>> /\ pc = "load" /\ a = <<>> /\ stage = 0
    /\ ch_title = None /\ out = <<>> /\ written = 0
    /\ call = NoCall /\ ret = <<>>

\* lines 234-262: one row of the content table into the nine indices
LoadRow ==
    /\ pc = "load" /\ loaded < Len(content)
    /\ LET d == content[loaded + 1]
           url == Get(d, "ContentURL")
       IN  /\ content_by_id' = Put(content_by_id, d.ContentID, d)
           /\ content_by_id_norm' = SetDefaultIf(content_by_id_norm, _normalize_id(Get(d, "ContentID")), d)
           /\ content_by_url' = PutIf(content_by_url, url, d)
           /\ content_by_url_norm' =
                IF Truthy(url) THEN SetDefaultIf(content_by_url_norm, _normalize_id(url), d)
                ELSE content_by_url_norm
           /\ content_by_frag_base' = AppendIf(content_by_frag_base, _fragment_base(Get(d, "ContentID")), d)
           /\ content_by_pre_bang' = AppendIf(content_by_pre_bang, _pre_bang(Get(d, "ContentID")), d)
           /\ content_by_tail' =
                AppendIf(content_by_tail, _tail_after_bang_bang_no_fragment(Get(d, "ContentID")), d)
           /\ content_by_p_anchor' = AppendIf(content_by_p_anchor, _p_anchor(Get(d, "ContentID")), d)
           /\ content_by_book' =
                IF Get(d, "BookID") /= None THEN AppendTo(content_by_book, Get(d, "BookID"), d)
                ELSE content_by_book
    /\ loaded' = loaded + 1
    /\ UNCHANGED <<tables, rows, pc, a, stage, ch_title, out, written, call, ret>>

\* lines 267-321: the bookmarks in DateCreated order, the CSV header
FetchRows ==
    /\ pc = "load" /\ loaded = Len(content)
    /\ rows' \in OrderByDateCreated(Bookmark)
    /\ pc' = "loop"
    /\ UNCHANGED <<tables, indices, loaded, a, stage, ch_title, out, written, call, ret>>

\* lines 322-353 and the entry of the call of line 354
BeginRow ==
    /\ pc = "loop" /\ written < Len(rows)
    /\ a' = CallOf(rows[written + 1], content_by_id, content_by_id_norm, content_by_url,
                   content_by_url_norm, content_by_frag_base, content_by_pre_bang,
                   content_by_p_anchor, content_by_tail, suppress_filename_chapter_titles)
    /\ stage' = 0
    /\ pc' = "resolve"
    /\ UNCHANGED <<tables, indices, loaded, rows, ch_title, out, written, call, ret>>

\* one block of determine_chapter_title
Resolve ==
    /\ pc = "resolve" /\ stage < NStages
    /\ ch_title' = RunStage(stage + 1, ch_title, a)
    /\ stage' = stage + 1
    /\ UNCHANGED <<tables, indices, loaded, rows, pc, a, out, written, call, ret>>

\* line 465 and lines 413-427: the title returned goes into the CSV line
WriteRow ==
    /\ pc = "resolve" /\ stage = NStages
    /\ out' = Append(out, Or(ch_title, <<>>))
    /\ written' = written + 1
    /\ pc' = "loop"
    /\ UNCHANGED <<tables, indices, loaded, rows, a, stage, ch_title, call, ret>>

\* lines 429-430
Finish ==
    /\ pc = "loop" /\ written = Len(rows)
    /\ pc' = "done"
    /\ UNCHANGED <<tables, indices, loaded, rows, a, stage, ch_title, out, written, call, ret>>

Next == LoadRow \/ FetchRows \/ BeginRow \/ Resolve \/ WriteRow \/ Finish

Spec == Init /\ [][Next]_vars

(***************************************************************************)
(* The functions on their own.  A call is a record of the function's name  *)
(* and its arguments, with the parts a composed argument was put together  *)
(* from; SpecCalls starts with some call of the families below and runs    *)
(* it, leaving <<value>> in ret.                                           *)
(***************************************************************************)
Call(fn, args) == [fn |-> fn, args |-> args, parts |-> <<>>]

\* s.upper()
ToUpper(s) == [i \in 1..Len(s) |-> UpperChar(s[i])]

\* s with the case of its k-th character changed
FlipAt(s, k) ==
    [i \in 1..Len(s) |->
        IF i /= k THEN s[i] ELSE IF s[i] \in Upper_ THEN LowerChar(s[i]) ELSE UpperChar(s[i])]

\* s in lower case, in upper case, as a title, and each of the three with
\* the case of one letter changed
CaseVariants(s) ==
    LET base == {s, ToLower(s), ToUpper(s), ToTitle(s)}
    IN  base \cup { FlipAt(b, k) : b \in base, k \in 1..Len(s) }

\* the greatest length of a generated identifier
MaxIdLen == 4

\* the characters of the generated identifiers
IdAlphabet == {"a", "p", "1", "!", "#", "-"}

\* the strings over A of length n at most
StringsUpTo(A, n) == UNION { [1..k -> A] : k \in 0..n }

\* identifiers of the docstrings and of other shapes
NamedIds ==
    { None,
      <<"/","a","/","b","o","o","k","!","!","O","E","B","P","S","!","x","h","t","m","l","/","c","h","a","p","6",".","x","h","t","m","l","#","p","1","-","2">>, <<"u","u","i","d","!","O","E","B","P","S","!","x","h","t","m","l","/","c","h","a","p","6",".","x","h","t","m","l","#","p","1","-","2">>,
      <<"/","p","a","t","h","#","p","1","6","7","-","2">>, <<"/","p","a","t","h","#","p","4","0">>, <<"/","p","a","t","h","#","1","6","7">>, <<"/","p","a","t","h","#","p","r","e","f","a","c","e","-","1">>, <<"/","p","a","t","h","#","P","1","2">>,
      <<"/","p","a","t","h","/","f","i","l","e",".","x","h","t","m","l","#","p","8","0","-","2">>, <<"/","p","a","t","h","/","f","i","l","e",".","x","h","t","m","l","#","p","8","0">>, <<"/","p","a","t","h","/","f","i","l","e",".","x","h","t","m","l">>,
      <<"/","a","/","b","o","o","k",".","k","e","p","u","b",".","e","p","u","b","!","!","i","n","d","e","x","_","s","p","l","i","t","_","0","0","0",".","h","t","m","l","#","p","4","0","-","2">>, <<"/","a","/","c","h",".","x","h","t","m","l","#","p","3","-","1">>,
      <<"a","!","!","b","!","!","c","#","p","1">>, <<"a","!","b","!","c">>, <<"x","!","!","c","%","3","6",".","h","t","m","l">>, <<"x","!","!","c","%","z","z","%","4">>, <<"x","!","!","%","f","f",".","h","t","m","l","#","p","%","3","1">>,
      <<"f","i","l","e",":","/","/","/","m","n","t","/","o","n","b","o","a","r","d","/","b",".","e","p","u","b","#","(","1","2",")","O","E","B","P","S","/","c","h","0","1",".","x","h","t","m","l">>, <<"/","/","[","x">>, <<"h","t","t","p",":","/","/","[",":",":","1","]","/","a","/","p","a","r","t","0","2",".","h","t","m","l">>,
      <<"/","m","n","t","/","o","n","b","o","a","r","d","/","i","n","d","e","x","_","s","p","l","i","t","_","0","0","0",".","h","t","m","l">>, <<"/","m","n","t","/","o","n","b","o","a","r","d","/","c","h","a","p","t","e","r","0","0","7",".","x","h","t","m","l">>,
      <<"/","b",".","x","h","t","m","l","#","p","1","0","-","2">>, <<"a",";","b","?","c","#","d">>, <<" "," ","/","x","/","c","h"," ","3",".","h","t","m"," ">> }

Identifiers == StringsUpTo(IdAlphabet, MaxIdLen) \cup NamedIds

\* titles: absent, blank, padded, generic and plain ones, and the boundary
\* titles of the classifier in other letter cases
BoundaryTitles ==
    { <<"i","n","d","e","x","_","s","p","l","i","t","_","0","0","4",".","h","t","m","l">>, <<"C","h","a","p","t","e","r"," ","1","2",":"," ","T","h","e"," ","S","t","o","r","m">>, <<"c","h","3">>, <<"9","7","8","0","1","4","3","1","2","7","7","4","1"," ","E","P","U","B"," ","8">> }

Titles ==
    { None, <<>>, <<" ">>, <<" ","\t","\n">>, <<"S","i","x">>, <<" "," ","S","i","x"," "," ">>, <<"\t","S","i","x","\n","\n">>, <<" ","c","h","3"," ">>, <<" "," ","i","n","d","e","x","_","s","p","l","i","t","_","0","0","4",".","h","t","m","l"," ">>,
      <<"a","!","!","b">>, <<"O","E","B","P","S","!","x">>, <<"x","!","o","e","b","p","s","!","y">>, <<"p","a","r","t","0","0","0","7"," ","s","p","l","i","t"," ","0","0","4">>, <<"s","p","l","i","t","_","0","0","4">>, <<"P","a","r","t"," ","1">>,
      <<"c","h","a","p","t","e","r","0","0","6">>, <<"C","h","a","p","t","e","r"," ","0","0","6">>, <<"c","h","0","2">>, <<"c","h","a","2">>, <<"f"," ","0","0","4","7">>, <<"p","0","1","2","3">>, <<"f"," ","4","7">>, <<"a","b"," ","0","0","4","7">>,
      <<"9","7","8","0","1","4","3","1","2","7","7","4"," ","p","a","g","e"," ","2">>, <<"9","7","8","0","1","4","3","1","2","7","7"," ","p","a","r","t"," ","1">>, <<"T","a","b","l","e"," ","o","f"," ","C","o","n","t","e","n","t","s">>, <<" ","."," ","h","t","m","l">>, <<"x",".","H","T","M">>,
      <<"c","h","a","p","t","e","r","6">>, <<"c","h","1","2","3","4">>, <<"c","h","a","p","t","e","r","0","0","6","a","b","c">>, <<"C","h","a","p","t","e","r","0","6"," ","x">>, <<"s","p","l","i","t","1","2","3","4","5","6">>, <<"1","2","3","4","5","6","7","8","9","0"," ","c","h","a","p","t","e","r">>, <<"1","2","3","4","5","6","7","8","9"," ","c","h","a","p","t","e","r">>,
      <<"1","2","3","4","5","6","7","8","9","0","1","2","3","4"," ","p","a","r","t">>, <<"9","7","8","0","1","4","3","1","2","7","7","4","1","c","h","a","p","t","e","r">>, <<"9","7","8","0","1","4","3","1","2","7","7","4","1"," ","p","a","g","e","s">>, <<"f"," ","0","0","4","7","1">>, <<"F","\t","0","0","4","7">>, <<"p","a","r","t","1"," ","_","s","p","l","i","t","2">>, <<"p","a","r","t","1","_"," ","s","p","l","i","t"," ","2">>, <<"x","s","p","l","i","t","2">>, <<"a","p","a","r","t","1","s","p","l","i","t","2">>,
      <<"x",".","h","t","m","l"," ">>, <<"\n","P","0","1","2","3","\n">>, <<"a"," ","s","p","l","i","t"," ","7",".">>, <<"m","y"," ","p","a","r","t","1","2"," "," ","s","p","l","i","t","\t","3","!">> }
    \cup UNION { CaseVariants(t) : t \in BoundaryTitles }

DecomposerNames ==
    { "_tail_after_bang_bang_no_fragment", "_p_anchor", "_fragment_base", "_pre_bang",
      "_strip_fragment", "_strip_after_bang_bang", "_normalize_id" }

DecomposerCalls == { Call(fn, <<id>>) : fn \in DecomposerNames, id \in Identifiers }

CleanCalls == { Call("_clean_title", <<t, b>>) : t \in Titles, b \in BOOLEAN }

GenericCalls == { Call("_is_generic_chapter_title", <<t>>) : t \in Titles }

\* the length of the long remainder of a heading, beyond the cap of 80
LongRestLen == 85

\* a remainder of n characters without a blank
LongRest(n) == [k \in 1..n |-> IF k % 7 = 0 THEN "e" ELSE "r"]

\* the parts of a context: text before the heading, the word, the white
\* space, the number, the separator, the remainder and the text after
CtxPre == { <<>>, <<"s","e","e"," ">>, <<"A"," ","n","o","t","e","\n">> }
CtxKind == { <<"C","h","a","p","t","e","r">>, <<"c","h","a","p","t","e","r">>, <<"P","A","R","T">>, <<"p","A","r","T">> }
CtxNum == { <<"4">>, <<"1","2">>, <<"0","0","7">>, <<"1","2","3","4">>, <<"I","V">>, <<"i","v">>, <<"M","M","X","X","I","V","I","I">>, <<"M","D","C","C","C","L","X","X","X","V","I","I","I">>, <<"4","a">> }
CtxSep == { <<>>, <<":">>, <<" ","-"," ">>, <<" ", "ENDASH">>, <<"EMDASH", " ">> }
CtxRest == { <<>>, <<"T","h","e"," ","A","w","a","k","e","n","i","n","g">>, <<" "," ","p","a","d","d","e","d"," "," ">>, LongRest(LongRestLen) }
CtxPost == { <<>>, <<"\n","I","t"," ","b","e","g","a","n",".">> }

CtxParts ==
    [pre : CtxPre, kind : CtxKind, num : CtxNum, sep : CtxSep, rest : CtxRest, post : CtxPost]

\* the context string put together from its parts
CtxOf(p) == p.pre \o p.kind \o <<" ">> \o p.num \o p.sep \o p.rest \o p.post

\* contexts of other shapes
NamedContexts ==
    { None, <<>>, <<" "," ","\n"," ">>, <<"C","h","a","p","t","e","r"," ","4",":"," ","T","h","e"," ","A","w","a","k","e","n","i","n","g","\n","I","t"," ","b","e","g","a","n",".">>, <<"J","u","s","t"," ","s","o","m","e"," ","p","r","o","s","e",".">>,
      <<"7","."," ","H","o","w"," ","i","t"," ","w","o","r","k","s">>, <<"I","n","t","r","o","d","u","c","t","i","o","n","\n","T","e","x","t">>, <<"t","e","x","t","\n","t","e","x","t","\n","t","e","x","t","\n","C","h","a","p","t","e","r"," ","9"," ","-"," ","L","a","t","e">>,
      <<"A","p","p","e","n","d","i","x"," ","B">>, <<"t","h","e"," ","c","h","a","p","t","e","r"," ","c","l","o","s","e","s">> }

\* n characters of prose in one line, without a heading
Prose(n) == [k \in 1..n |-> IF k % 6 = 0 THEN " " ELSE "x"]

\* contexts in which several rules match: a heading below a numbered heading
\* or a section name, headings and section names on the third and on the
\* fourth non-empty line, across two lines, and around the 400th character
CascadeContexts ==
    { <<"7","."," ","H","o","w","\n","C","h","a","p","t","e","r"," ","2",":"," ","T","w","o">>, <<"I","n","t","r","o","d","u","c","t","i","o","n","\n","x","\n","P","a","r","t"," ","I","V">>, <<"P","r","e","f","a","c","e","\n","3","."," ","T","h","i","r","d">>,
      <<"E","p","i","l","o","g","u","e","\n","7","."," ","H","o","w">>, <<"a","\n"," ","\n","b","\n","\n","E","p","i","l","o","g","u","e">>, <<"a","\n","b","\n","c","\n","E","p","i","l","o","g","u","e">>, <<"a","\n","b","\n","c","\n","7","."," ","L","a","t","e">>,
      <<"a","\n","b","\n","c","\n","C","h","a","p","t","e","r","\n","9">>, <<"C","h","a","p","t","e","r","\n","4">>, <<"1","."," ","O","n","e","\n","2","."," ","T","w","o">>, <<"x","\n","\n","\n","\n","P","a","r","t"," ","2"," ","-"," ","B","\n","C","h","a","p","t","e","r"," ","1">>,
      Prose(400) \o <<" ","C","h","a","p","t","e","r"," ","5",":"," ","F","a","r">>, Prose(391) \o <<"C","h","a","p","t","e","r"," ","1","2",":"," ","S","t","o","r","m">>,
      Prose(395) \o <<"\n","P","r","e","f","a","c","e">>, Prose(401) \o <<"\n","P","r","e","f","a","c","e">> }

ContextCalls ==
    { [fn |-> "_title_from_context", args |-> <<CtxOf(p)>>, parts |-> p] : p \in CtxParts }
    \cup { Call("_title_from_context", <<c>>) : c \in NamedContexts \cup CascadeContexts }

\* the parts of a file identifier: the directory, the words of the label,
\* what joins them, what joins label and number, the number, the extension
IdDir == { <<>>, <<"/","m","n","t","/","o","n","b","o","a","r","d","/">>, <<"b","k",".","e","p","u","b","!","!","O","E","B","P","S","/">> }
IdLabel ==
    { <<<<"c","h","a","p","t","e","r">>>>, <<<<"C","h">>>>, <<<<"c","h","a","p">>>>, <<<<"P","A","R","T">>>>, <<<<"p","r","e","f","a","c","e">>>>, <<<<"P","r","o","l","o","g">>>>,
      <<<<"p","r","o","l","o","g","u","e">>>>, <<<<"e","p","i","l","o","g","u","e">>>>, <<<<"a","p","p","e","n","d","i","x">>>>, <<<<"i","n","t","r","o">>>>, <<<<"i","n","t","r","o","d","u","c","t","i","o","n">>>>,
      <<<<"f","o","r","e","w","o","r","d">>>>, <<<<"a","f","t","e","r","w","o","r","d">>>>, <<<<"i","n","d","e","x">>, <<"s","p","l","i","t">>>>, <<<<"n","o","t","e","s">>>>,
      <<<<"m","y">>, <<"c","h","a","p","t","e","r">>>>, <<<<"9","7","8","0","1","4","3","1","2","7","7","4","1">>, <<"E","P","U","B">>>> }
IdGap == { <<>>, <<"_">>, <<"-","-">> }
IdNum == { <<>>, <<"7">>, <<"0","0","7">>, <<"0","0","0">>, <<"1","2">>, <<"0","1">>, <<"1","2","3","4","5","6">> }
IdExt == { <<>>, <<".","h","t","m","l">>, <<".","x","h","t","m","l">>, <<".","H","T","M">> }

IdParts == [dir : IdDir, label : IdLabel, gap : IdGap, num : IdNum, ext : IdExt]

\* the words joined by sep
RECURSIVE Join(_, _)
Join(words, sep) ==
    IF words = <<>> THEN <<>>
    ELSE IF Len(words) = 1 THEN words[1]
    ELSE words[1] \o sep \o Join(Tail(words), sep)

\* the identifier put together from its parts
IdOf(p) == p.dir \o Join(p.label, <<"_">>) \o p.gap \o p.num \o p.ext

FallbackCalls ==
    { [fn |-> "_fallback_title_from_content_id", args |-> <<IdOf(p)>>, parts |-> p] : p \in IdParts }
    \cup { Call("_fallback_title_from_content_id", <<id>>) : id \in NamedIds }

\* the index of the records recs under the keys keyOf[d], as the loader
\* builds it, from record k on
RECURSIVE ListIndexFrom(_, _, _)
ListIndexFrom(keyOf, recs, k) ==
    IF k = 0 THEN EmptyDict
    ELSE AppendIf(ListIndexFrom(keyOf, recs, k - 1), keyOf[recs[k]], recs[k])

ListIndex(keyOf, recs) == ListIndexFrom(keyOf, recs, Len(recs))

\* the arguments of a resolver call for bookmark r, matched record ch_row
\* and the records recs behind the four indices
ResolverArgs(r, ch_row, recs, suppress) ==
    LET cont_id == Get(r, "ContentID")
        ids == Range(recs)
    IN  [r |-> r, ch_row |-> ch_row, cont_id |-> cont_id,
         cont_id_no_frag |-> _strip_fragment(cont_id),
         frag_base |-> _fragment_base(cont_id), pre_bang |-> _pre_bang(cont_id),
         content_by_frag_base |-> ListIndex([d \in ids |-> _fragment_base(d.ContentID)], recs),
         content_by_pre_bang |-> ListIndex([d \in ids |-> _pre_bang(d.ContentID)], recs),
         content_by_p_anchor |-> ListIndex([d \in ids |-> _p_anchor(d.ContentID)], recs),
         content_by_tail |-> ListIndex([d \in ids |-> _tail_after_bang_bang_no_fragment(d.ContentID)], recs),
         suppress_filename_like |-> suppress]

\* a content record with a Depth
DeepRow(id, title, depth) == [ContentID |-> id, Title |-> title, Depth |-> depth]

\* records with a declared depth: numeric, signed, blank, not numeric, absent
DeepRows ==
    { DeepRow(<<"b","k","!","!","t","/","c","6",".","h","t","m","l","-","1">>, <<"O","n","e">>, <<"1">>), DeepRow(<<"b","k","!","!","t","/","c","6",".","h","t","m","l","-","1">>, <<"D","e","e","p","e","r">>, <<" ","2"," ">>),
      DeepRow(<<"b","k","!","!","t","/","c","6",".","h","t","m","l","-","1">>, <<"M","i","n","u","s">>, <<"-","3">>), DeepRow(<<"b","k","!","!","t","/","c","6",".","h","t","m","l","-","1">>, <<"B","a","d">>, <<"a","b","c">>),
      DeepRow(<<"b","k","!","!","t","/","c","6",".","h","t","m","l","-","1">>, <<"U","n","k","n","o","w","n">>, None), DeepRow(<<"b","k","!","!","t","/","c","6",".","h","t","m","l","-","2">>, <<"S","e","c","o","n","d">>, <<"9">>),
      DeepRow(<<"b","k","!","!","t","/","c","6",".","h","t","m","l","-","1">>, None, <<"1","_","0">>) }

\* records of the tail t/c6.html in other containers: titles of different
\* and of equal lengths, a padded one, a table of contents, a generic one
\* and an absent one
TailRows ==
    { DeepRow(<<"x","!","!","t","/","c","6",".","h","t","m","l">>, <<"S","h","o","r","t">>, None), DeepRow(<<"y","!","t","/","c","6",".","h","t","m","l">>, <<"S","h","a","r","p">>, None),
      DeepRow(<<"x","!","!","t","/","c","6",".","h","t","m","l","#","p","9">>, <<" "," ","T","h","e"," ","l","o","n","g","e","s","t"," "," ">>, None),
      DeepRow(<<"x","!","!","t","/","c","%","3","6",".","h","t","m","l">>, <<"T","a","b","l","e"," ","O","f"," ","C","o","n","t","e","n","t","s">>, None),
      DeepRow(<<"x","!","!","t","/","c","6",".","h","t","m","l">>, <<"i","n","d","e","x","_","s","p","l","i","t","_","0","0","4",".","h","t","m","l">>, None),
      DeepRow(<<"x","!","!","t","/","c","6",".","h","t","m","l">>, None, None) }

\* the greatest number of records behind the indices of a resolver call
MaxCandidates == 2

\* highlights no index knows, whose titles only the fallback can give:
\* file names that give a generic label and file names that give a label
FallbackBookmarks ==
    { BookmarkRow(<<"6">>, <<"q","!","!","i","n","d","e","x","_","s","p","l","i","t","_","0","0","0",".","h","t","m","l">>, None, <<"2","0","2","4","-","0","2","-","0","1">>),
      BookmarkRow(<<"7">>, <<"/","a","/","O","E","B","P","S","/","i","n","d","e","x","_","s","p","l","i","t","_","0","0","0",".","h","t","m","l","#","p","3","-","1">>, <<"J","u","s","t"," ","s","o","m","e"," ","p","r","o","s","e",".">>, <<"2","0","2","4","-","0","2","-","0","2">>),
      BookmarkRow(<<"8">>, <<"q","!","!","T","e","x","t","/","p","a","r","t","0","0","0","7","_","s","p","l","i","t","_","0","0","4",".","h","t","m","l","#","x">>, None, <<"2","0","2","4","-","0","2","-","0","3">>),
      BookmarkRow(<<"9">>, <<"q","!","!","c","h","0","2",".","x","h","t","m","l">>, None, <<"2","0","2","4","-","0","2","-","0","4">>),
      BookmarkRow(<<"1","0">>, <<"q","!","!","f","_","0","0","4","7",".","h","t","m","l">>, None, <<"2","0","2","4","-","0","2","-","0","5">>),
      BookmarkRow(<<"1","1">>, <<"q","!","!","c","h","a","p","t","e","r","0","0","7",".","x","h","t","m","l">>, None, <<"2","0","2","4","-","0","2","-","0","6">>),
      BookmarkRow(<<"1","2">>, <<"q","!","!","M","y","_","S","t","o","r","y",".","h","t","m","l","#","p","3">>, None, <<"2","0","2","4","-","0","2","-","0","7">>) }

ResolverCalls ==
    { Call("determine_chapter_title", <<ResolverArgs(r, ch_row, recs, b)>>) :
        r \in BookmarkRows, ch_row \in {<<>>},
        recs \in SeqsUpTo(DeepRows, MaxCandidates) \cup SeqsUpTo(TailRows, MaxCandidates)
                 \cup SeqsUpTo(ContentRows, MaxCandidates),
        b \in BOOLEAN }
    \cup { Call("determine_chapter_title", <<ResolverArgs(r, <<d>>, <<>>, b)>>) :
             r \in BookmarkRows, d \in ContentRows, b \in BOOLEAN }
    \cup { Call("determine_chapter_title", <<ResolverArgs(r, <<>>, recs, b)>>) :
             r \in FallbackBookmarks, recs \in SeqsUpTo(TailRows, 1), b \in BOOLEAN }

\* tails to compare: absent, empty, equal, with a number in the file name,
\* with a number in a directory only, without a file name, with many leading
\* segments, with a long number, with other extensions and separators,
\* of one file name under directories that part at the fifth
ScoreTails ==
    { None, <<>>, <<"t","/","c","6",".","h","t","m","l">>, <<"t","/","c","7",".","h","t","m","l">>, <<"t","/","c","6","0",".","h","t","m","l">>, <<"u","/","c","6",".","x","h","t","m","l">>, <<"t","!","c","6",".","H","T","M">>,
      <<"c","h","1","/","a",".","h","t","m","l">>, <<"c","h","2","/","a",".","h","t","m","l">>, <<"1","/","c","h","5",".","h","t","m","l">>, <<"1","/","c","h","7",".","h","t","m","l">>, <<"a","/">>, <<"b","/">>, <<".","h","t","m","l">>,
      <<"O","/","T","/","a","/","b","/","c","/","d",".","h","t","m","l">>, <<"O","/","T","/","a","/","b","/","c","/","e",".","h","t","m","l">>, <<"c","1","2","3","4","5","6","7",".","h","t","m","l">>, <<"c","1","2","3","4","5","6","0",".","h","t","m","l">>,
      <<"c","6",".","x","m","l">>, <<"c","6">>, <<"n","9","/","x","3","y","8",".","h","t","m">>,
      <<"O","/","T","/","a","/","b","/","c","/","d","1",".","h","t","m","l">>, <<"O","/","T","/","a","/","b","/","q","/","d","1",".","h","t","m","l">> }

ScoreCalls ==
    { Call("_score_tail_similarity", <<cur, cand>>) : cur \in ScoreTails, cand \in ScoreTails }

Calls ==
    DecomposerCalls \cup CleanCalls \cup GenericCalls \cup ContextCalls \cup FallbackCalls
    \cup ResolverCalls \cup ScoreCalls

\* the variables of export_highlights at rest
Idle ==
    /\ content = <<>> /\ Bookmark = {} /\ suppress_filename_chapter_titles = TRUE
    /\ content_by_id = EmptyDict /\ content_by_id_norm = EmptyDict
    /\ content_by_url = EmptyDict /\ content_by_url_norm = EmptyDict
    /\ content_by_frag_base = EmptyDict /\ content_by_pre_bang = EmptyDict
    /\ content_by_book = EmptyDict /\ content_by_tail = EmptyDict
    /\ content_by_p_anchor = EmptyDict
    /\ loaded = 0 /\ rows = <<>> /\ pc = "done" /\ a = <<>> /\ stage = 0
    /\ ch_title = None /\ out = <<>> /\ written = 0

InitCalls == Idle /\ call \in Calls /\ ret = <<>>

exporter == <<tables, indices, loaded, rows, pc, a, stage, ch_title, out, written>>

\* the call returns v
Returns(v) == ret = <<>> /\ ret' = <<v>> /\ UNCHANGED <<exporter, call>>

Call_tail_after_bang_bang_no_fragment ==
    /\ call.fn = "_tail_after_bang_bang_no_fragment"
    /\ Returns(_tail_after_bang_bang_no_fragment(call.args[1]))

Call_p_anchor == call.fn = "_p_anchor" /\ Returns(_p_anchor(call.args[1]))

Call_fragment_base == call.fn = "_fragment_base" /\ Returns(_fragment_base(call.args[1]))

Call_pre_bang == call.fn = "_pre_bang" /\ Returns(_pre_bang(call.args[1]))

Call_strip_fragment == call.fn = "_strip_fragment" /\ Returns(_strip_fragment(call.args[1]))

Call_strip_after_bang_bang ==
    call.fn = "_strip_after_bang_bang" /\ Returns(_strip_after_bang_bang(call.args[1]))

Call_normalize_id == call.fn = "_normalize_id" /\ Returns(_normalize_id(call.args[1]))

Call_clean_title ==
    call.fn = "_clean_title" /\ Returns(_clean_title(call.args[1], call.args[2]))

Call_is_generic_chapter_title ==
    call.fn = "_is_generic_chapter_title" /\ Returns(_is_generic_chapter_title(call.args[1]))

Call_title_from_context ==
    call.fn = "_title_from_context" /\ Returns(_title_from_context(call.args[1]))

Call_fallback_title_from_content_id ==
    /\ call.fn = "_fallback_title_from_content_id"
    /\ Returns(_fallback_title_from_content_id(call.args[1]))

Call_determine_chapter_title ==
    call.fn = "determine_chapter_title" /\ Returns(determine_chapter_title(call.args[1]))

Call_score_tail_similarity ==
    /\ call.fn = "_score_tail_similarity"
    /\ Returns(_score_tail_similarity(call.args[1], call.args[2]))

NextCalls ==
    \/ Call_tail_after_bang_bang_no_fragment
    \/ Call_p_anchor
    \/ Call_fragment_base
    \/ Call_pre_bang
    \/ Call_strip_fragment
    \/ Call_strip_after_bang_bang
    \/ Call_normalize_id
    \/ Call_clean_title
    \/ Call_is_generic_chapter_title
    \/ Call_title_from_context
    \/ Call_fallback_title_from_content_id
    \/ Call_determine_chapter_title
    \/ Call_score_tail_similarity

SpecCalls == InitCalls /\ [][NextCalls]_vars

(***************************************************************************)
(* Properties                                                              *)
(***************************************************************************)
\* what block k yields when no earlier block has produced a title
StageYield(k, args) ==
    CASE k = 1 -> Stage1(None, args)
      [] k = 2 -> Stage2(None, args)
      [] k = 3 -> Stage3(None, args)
      [] k = 4 -> Stage4(None, args)
      [] k = 5 -> Stage5(None, args)
      [] k = 6 -> Stage6(None, args)
      [] k = 7 -> Stage7(None, args)
      [] k = 8 -> Stage8(None, args)

\* prev when it is a title, the yield of block k otherwise
YieldAfter(prev, k, args) == IF Truthy(prev) THEN prev ELSE StageYield(k, args)

\* the yield of the first of the blocks 1..k that yields a title, None when
\* none of them does
RECURSIVE FirstYield(_, _)
FirstYield(k, args) ==
    IF k = 0 THEN None ELSE YieldAfter(FirstYield(k - 1, args), k, args)

\* C1: the eight stages run in the order record title, context, fragment
\* base, exact tail, p-anchor, sibling tails, pre-bang, fallback; after the
\* k-th of them the title is the yield of the first stage among 1..k that
\* yielded one (a later stage never replaces it) and absent when none did,
\* and the title written for the bookmark is that of all eight stages.
C1_FirstYieldingStageWins ==
    /\ pc = "resolve" /\ stage >= 1 => ch_title = FirstYield(stage, a)
    /\ pc = "loop" /\ written >= 1 => out[written] = Or(FirstYield(NStages, a), <<>>)

\* C1: all eight stages have run, the title comes from one of the stages 2
\* to 7, and a later stage had a different title to offer.
C1_Witness ==
    /\ pc = "resolve" /\ stage = NStages
    /\ \E j \in 2..7 : \E k \in (j + 1)..NStages :
          /\ ch_title = StageYield(j, a) /\ Truthy(ch_title)
          /\ \A i \in 1..(j - 1) : ~Truthy(StageYield(i, a))
          /\ Truthy(StageYield(k, a)) /\ StageYield(k, a) /= ch_title

\* C2: the cleaner is idempotent: cleaning the value it returned, with the
\* same suppress_filename_like, returns that value again.
C2_CleanIdempotent ==
    call.fn = "_clean_title" /\ ret /= <<>> =>
        _clean_title(ret[1], call.args[2]) = ret[1]

\* C2: a padded title has been cleaned to a title other than the argument.
C2_Witness ==
    /\ call.fn = "_clean_title" /\ ret /= <<>>
    /\ Truthy(ret[1]) /\ ret[1] /= call.args[1]
    /\ call.args[1][1] \in WhiteSpace

\* a step of the loop over the bookmarks changes no table, index or row
ResolvingKeepsData ==
    pc \in {"loop", "resolve"} => UNCHANGED <<tables, indices, rows>>

\* C3: resolving leaves the tables, the indices and the fetched rows as
\* they are, and the title written for a bookmark is the value of
\* determine_chapter_title for that bookmark and the indices alone, whatever
\* was resolved before it.
C3_ResolutionIsPure ==
    /\ [][ResolvingKeepsData]_vars
    /\ [](pc \in {"loop", "done"} =>
            \A k \in 1..written :
                out[k] = Or(determine_chapter_title(
                              CallOf(rows[k], content_by_id, content_by_id_norm, content_by_url,
                                     content_by_url_norm, content_by_frag_base, content_by_pre_bang,
                                     content_by_p_anchor, content_by_tail,
                                     suppress_filename_chapter_titles)), <<>>))

\* C3: two bookmarks are written, the first with a title, the second with
\* another value.
C3_Witness ==
    /\ pc = "done" /\ written = 2
    /\ out[1] /= <<>> /\ out[2] /= out[1]
    /\ content /= <<>>

\* C4: no call raises: a decomposer, the cleaner, the context extractor,
\* the fallback deriver and the resolver return a value that is no
\* exception, the classifier returns a boolean, the scorer a number, and a
\* decomposer given None returns None.
C4_NeverRaises ==
    ret /= <<>> =>
        /\ call.fn = "_is_generic_chapter_title" => ret[1] \in BOOLEAN
        /\ call.fn = "_score_tail_similarity" => ret[1] \in Nat
        /\ call.fn \notin {"_is_generic_chapter_title", "_score_tail_similarity"}
           => ret[1] /= Raised
        /\ call.fn \in DecomposerNames /\ call.args[1] = None => ret[1] = None

\* C4: the fallback deriver has returned None for an identifier that
\* urlparse rejects with an exception.
C4_Witness ==
    /\ call.fn = "_fallback_title_from_content_id" /\ ret = <<None>>
    /\ Truthy(call.args[1]) /\ UrlPath(call.args[1]) = Raised

\* the documented result of the classifier for a boundary title
BoundaryResult(t) == t /= <<"C","h","a","p","t","e","r"," ","1","2",":"," ","T","h","e"," ","S","t","o","r","m">>

\* C5: index_split_004.html, ch3 and 9780143127741 EPUB 8 are generic,
\* Chapter 12: The Storm is not, and so it is for each of them in another
\* letter case.
C5_BoundaryTitles ==
    call.fn = "_is_generic_chapter_title" /\ ret /= <<>> =>
        \A t \in BoundaryTitles :
            call.args[1] \in CaseVariants(t) => ret[1] = BoundaryResult(t)

\* C5: the classifier has found CH3, in upper case, generic.
C5_Witness ==
    call.fn = "_is_generic_chapter_title" /\ call.args[1] = <<"C","H","3">> /\ ret = <<TRUE>>

\* the separator of an identifier: !! when it has one, ! otherwise
SeparatorOf(id) == IF Contains(id, <<"!","!">>) THEN <<"!","!">> ELSE <<"!">>

\* s up to its first #
NoFragment(s) == IF Contains(s, <<"#">>) THEN Slice(s, 1, Find(s, <<"#">>) - 1) ELSE s

\* C6 as stated: the tail is what follows the last separator.
C6_TailAfterLast ==
    call.fn = "_tail_after_bang_bang_no_fragment" /\ ret /= <<>> =>
        LET id == call.args[1]
        IN  /\ ~Truthy(id) \/ ~Contains(id, <<"!">>) => ret[1] = None
            /\ Truthy(id) /\ Contains(id, <<"!">>) =>
                  ret[1] = unquote(NoFragment(AfterLast(id, SeparatorOf(id))))

\* C6: the tail is what follows the first separator (the first !!, or the
\* first ! of an identifier without !!), up to the first # and
\* percent-decoded; it is absent when the identifier has no separator; the
\* tail of /a/book!!OEBPS!xhtml/chap6.xhtml#p1-2 is OEBPS!xhtml/chap6.xhtml.
C6_TailAfterFirst ==
    call.fn = "_tail_after_bang_bang_no_fragment" /\ ret /= <<>> =>
        LET id == call.args[1]
            sep == SeparatorOf(id)
        IN  /\ ~Truthy(id) \/ ~Contains(id, <<"!">>) => ret[1] = None
            /\ Truthy(id) /\ Contains(id, <<"!">>) =>
                  \E k \in 1..(Len(id) - Len(sep) + 1) :
                      /\ SubSeq(id, k, k + Len(sep) - 1) = sep
                      /\ \A j \in 1..(k - 1) : SubSeq(id, j, j + Len(sep) - 1) /= sep
                      /\ ret[1] = unquote(NoFragment(Slice(id, k + Len(sep), Len(id))))
            /\ id = <<"/","a","/","b","o","o","k","!","!","O","E","B","P","S","!","x","h","t","m","l","/","c","h","a","p","6",".","x","h","t","m","l","#","p","1","-","2">> => ret[1] = <<"O","E","B","P","S","!","x","h","t","m","l","/","c","h","a","p","6",".","x","h","t","m","l">>

\* C6: the tail of an identifier with two separators has been taken, and it
\* holds the second separator.
C6_Witness ==
    /\ call.fn = "_tail_after_bang_bang_no_fragment" /\ call.args[1] = <<"a","!","!","b","!","!","c","#","p","1">>
    /\ ret = <<<<"b","!","!","c">>>>

\* the pNNN token of an identifier: the leading segment of the fragment,
\* when it is the letter p followed by digits
PNNN(id) ==
    IF ~Truthy(id) \/ ~Contains(id, <<"#">>) THEN None
    ELSE LET frag == Slice(id, Find(id, <<"#">>) + 1, Len(id))
             base == IF Contains(frag, <<"-">>) THEN Slice(frag, 1, Find(frag, <<"-">>) - 1) ELSE frag
         IN  IF /\ Len(base) >= 2 /\ base[1] = "p"
                /\ \A k \in 2..Len(base) : base[k] \in Digits
             THEN base ELSE None

\* C7 as stated: the p-anchor is the pNNN token of the fragment, and absent
\* for every other fragment and without a fragment.
C7_PAnchorIsPNNN ==
    call.fn = "_p_anchor" /\ ret /= <<>> => ret[1] = PNNN(call.args[1])

\* the first n characters of s at most
Take(s, n) == Slice(s, 1, Min(n, Len(s)))

\* s without its first n characters
Drop(s, n) == Slice(s, n + 1, Len(s))

\* the characters a number starts with: digits, or roman numeral letters in
\* either case
RomanAnyCase == Roman \cup { LowerChar(c) : c \in Roman }

\* the number written at the start of s, whole: its run of digits, or its
\* run of roman numeral letters
WrittenNumber(s) ==
    IF s /= <<>> /\ s[1] \in Digits THEN Slice(s, 1, SkipFwd(s, Digits, 1) - 1)
    ELSE Slice(s, 1, SkipFwd(s, RomanAnyCase, 1) - 1)

\* the number the heading pattern takes at the start of s: three digits at
\* most, or eight roman numeral letters at most
TakenNumber(s) ==
    IF s /= <<>> /\ s[1] \in Digits THEN Take(WrittenNumber(s), 3)
    ELSE Take(WrittenNumber(s), 8)

\* the heading for the word kind and the text s that follows it on the line
\* when num, a prefix of s, is read as the number: the remainder is what
\* follows a separator that comes next after num, cut at 80 characters and
\* trimmed
HeadingFor(kind, s, num) ==
    LET after == LStrip(Drop(s, Len(num)), WhiteSpace)
        rem == IF after /= <<>> /\ after[1] \in Dashes
               THEN Strip(Take(LStrip(Drop(after, 1), WhiteSpace), RestCap))
               ELSE <<>>
    IN  ToTitle(kind) \o <<" ">> \o num \o (IF rem /= <<>> THEN <<":"," ">> \o rem ELSE <<>>)

\* the text that follows the word and the blank on the heading line of a
\* composed context
AfterKind(p) == Strip(p.num \o p.sep \o p.rest)

\* ret[1] is "<Kind> <Num>" or "<Kind> <Num>: <remainder>" with a remainder
\* of 80 characters at most
HeadingShape(title, kind, num) ==
    LET head == ToTitle(kind) \o <<" ">> \o num
    IN  /\ ToTitle(kind) \in {<<"C","h","a","p","t","e","r">>, <<"P","a","r","t">>}
        /\ \/ title = head
           \/ /\ Len(title) > Len(head) + 2
              /\ Take(title, Len(head) + 2) = head \o <<":"," ">>
              /\ Len(title) - Len(head) - 2 <= RestCap
              /\ Drop(title, Len(head) + 2) = Strip(Drop(title, Len(head) + 2))

CleanedName(p) ==
    Join(p.label, <<" ">>) \o (IF p.gap /= <<>> /\ p.num /= <<>> THEN <<" ">> ELSE <<>>) \o p.num

\* the number fits the label patterns: five digits at most after its
\* leading zeros
FitsLabel(num) == num /= <<>> /\ Len(LStrip(num, {"0"})) <= 5

\* the labels that need a number and the labels that may have one, with
\* the word they are emitted as
NumberedLabels ==
    { <<<<"c","h","a","p","t","e","r">>, <<"C","h","a","p","t","e","r">>>>, <<<<"c","h">>, <<"C","h","a","p","t","e","r">>>>, <<<<"c","h","a","p">>, <<"C","h","a","p","t","e","r">>>>,
      <<<<"p","a","r","t">>, <<"P","a","r","t">>>> }

OptionalLabels ==
    { <<<<"p","r","e","f","a","c","e">>, <<"P","r","e","f","a","c","e">>>>, <<<<"p","r","o","l","o","g">>, <<"P","r","o","l","o","g","u","e">>>>, <<<<"p","r","o","l","o","g","u","e">>, <<"P","r","o","l","o","g","u","e">>>>,
      <<<<"e","p","i","l","o","g">>, <<"E","p","i","l","o","g","u","e">>>>, <<<<"e","p","i","l","o","g","u","e">>, <<"E","p","i","l","o","g","u","e">>>>, <<<<"i","n","t","r","o">>, <<"I","n","t","r","o","d","u","c","t","i","o","n">>>>,
      <<<<"i","n","t","r","o","d","u","c","t","i","o","n">>, <<"I","n","t","r","o","d","u","c","t","i","o","n">>>>, <<<<"f","o","r","e","w","o","r","d">>, <<"F","o","r","e","w","o","r","d">>>>,
      <<<<"a","f","t","e","r","w","o","r","d">>, <<"A","f","t","e","r","w","o","r","d">>>> }

EmbeddedLabels == { <<<<"c","h","a","p","t","e","r">>, <<"C","h","a","p","t","e","r">>>>, <<<<"p","a","r","t">>, <<"P","a","r","t">>>>, <<<<"e","p","u","b">>, <<"E","P","U","B">>>> }

\* the word the label l is emitted as, of the pairs of ls
EmittedAs(l, ls) == (CHOOSE x \in ls : x[1] = l)[2]

\* the title expected for a composed identifier; the suffix of an appendix
\* is emitted as an integer or as written
FallbackExpected(p, suffixAsInteger) ==
    LET l == ToLower(Join(p.label, <<" ">>))
        last == ToLower(p.label[Len(p.label)])
        n == IntToStr(StrToInt(p.num))
    IN  IF l \in { x[1] : x \in NumberedLabels } /\ FitsLabel(p.num)
        THEN EmittedAs(l, NumberedLabels) \o <<" ">> \o n
        ELSE IF l \in { x[1] : x \in OptionalLabels } /\ (p.num = <<>> \/ FitsLabel(p.num))
        THEN EmittedAs(l, OptionalLabels) \o (IF p.num = <<>> THEN <<>> ELSE <<" ">> \o n)
        ELSE IF l = <<"a","p","p","e","n","d","i","x">> /\ p.num = <<>> THEN <<"A","p","p","e","n","d","i","x">>
        ELSE IF l = <<"a","p","p","e","n","d","i","x">> /\ p.gap /= <<>> /\ Len(p.num) <= 3
        THEN <<"A","p","p","e","n","d","i","x"," ">> \o (IF suffixAsInteger THEN n ELSE p.num)
        ELSE IF Len(p.label) > 1 /\ last \in { x[1] : x \in EmbeddedLabels } /\ FitsLabel(p.num)
        THEN EmittedAs(last, EmbeddedLabels) \o <<" ">> \o n
        ELSE CleanedName(p)

\* C9 as stated: the last component of the tail or path, without a
\* .html/.xhtml/.htm extension and with runs of _ and - as single blanks,
\* gives the label of the first pattern that matches it, else the embedded
\* chapter/part/epub label, else the cleaned name; every number of a
\* label is emitted as an integer.
C9_NumbersAsIntegers ==
    call.fn = "_fallback_title_from_content_id" /\ ret /= <<>> /\ "label" \in DOMAIN call.parts =>
        ret[1] = FallbackExpected(call.parts, TRUE)

\* C9: the last component of the tail or path, without a .html/.xhtml/.htm
\* extension and with runs of _ and - as single blanks, gives the label of
\* the first full-string pattern that matches it, else the embedded
\* chapter/part/epub label, else the cleaned name; the number of a
\* label is emitted as an integer without leading zeros, except the suffix
\* of an appendix, which is emitted as written.  A path ending in
\* index_split_000.html gives "index split 000", one ending in
\* chapter007.xhtml gives "Chapter 7".
C9_FallbackLabels ==
    call.fn = "_fallback_title_from_content_id" /\ ret /= <<>> =>
        /\ "label" \in DOMAIN call.parts => ret[1] = FallbackExpected(call.parts, FALSE)
        /\ call.args[1] = <<"/","m","n","t","/","o","n","b","o","a","r","d","/","i","n","d","e","x","_","s","p","l","i","t","_","0","0","0",".","h","t","m","l">> => ret[1] = <<"i","n","d","e","x"," ","s","p","l","i","t"," ","0","0","0">>
        /\ call.args[1] = <<"/","m","n","t","/","o","n","b","o","a","r","d","/","c","h","a","p","t","e","r","0","0","7",".","x","h","t","m","l">> => ret[1] = <<"C","h","a","p","t","e","r"," ","7">>

\* C9: chapter007 in a container path has given Chapter 7.
C9_Witness ==
    /\ call.fn = "_fallback_title_from_content_id" /\ "label" \in DOMAIN call.parts
    /\ call.args[1] = <<"b","k",".","e","p","u","b","!","!","O","E","B","P","S","/","c","h","a","p","t","e","r","0","0","7",".","x","h","t","m","l">>
    /\ ret = <<<<"C","h","a","p","t","e","r"," ","7">>>>

\* the scenario: the content table holds the records /b.xhtml#p10 (Notes)
\* and /b.xhtml#p10-1 (Chapter 5) and no other, in either order, and the
\* bookmark at /b.xhtml#p10-2, whose context has no heading and which no
\* record matches, has been through stage 3
SharedFragmentBase ==
    /\ Range(content) = { ContentRow(<<"/","b",".","x","h","t","m","l","#","p","1","0">>, None, <<"N","o","t","e","s">>, None),
                          ContentRow(<<"/","b",".","x","h","t","m","l","#","p","1","0","-","1">>, None, <<"C","h","a","p","t","e","r"," ","5">>, None) }
    /\ pc = "resolve" /\ stage >= 3
    /\ a.cont_id = <<"/","b",".","x","h","t","m","l","#","p","1","0","-","2">> /\ a.ch_row = <<>>
    /\ ~Truthy(_title_from_context(Get(a.r, "ContextString")))

\* the scores of the candidates of stage 3 against the tail cur_tail
FragmentBaseScores(cur_tail) ==
    LET cand_rows == GetList(a.content_by_frag_base, a.frag_base)
    IN  [k \in 1..Len(cand_rows) |->
            _score_tail_similarity(cur_tail,
                _tail_after_bang_bang_no_fragment(cand_rows[k].ContentID))]

\* C10 as stated: the bookmark resolves at stage 3 to Chapter 5, scored
\* against the bookmark's tail b.xhtml.
C10_ScoredAgainstTail ==
    SharedFragmentBase =>
        /\ ch_title = <<"C","h","a","p","t","e","r"," ","5">>
        /\ ~Truthy(StageYield(1, a)) /\ ~Truthy(StageYield(2, a))
        /\ StageYield(3, a) = <<"C","h","a","p","t","e","r"," ","5">>
        /\ _tail_after_bang_bang_no_fragment(a.cont_id) = <<"b",".","x","h","t","m","l">>

\* C10: the bookmark resolves at stage 3 to Chapter 5: stages 1 and 2 yield
\* nothing, both records are candidates of stage 3, the bookmark's
\* identifier has no container separator, so its tail is absent and both
\* candidates score 0, and the longer title wins, whatever the load order.
C10_LongerTitleWins ==
    SharedFragmentBase =>
        /\ ch_title = <<"C","h","a","p","t","e","r"," ","5">>
        /\ ~Truthy(StageYield(1, a)) /\ ~Truthy(StageYield(2, a))
        /\ StageYield(3, a) = <<"C","h","a","p","t","e","r"," ","5">>
        /\ Len(GetList(a.content_by_frag_base, a.frag_base)) = 2
        /\ _tail_after_bang_bang_no_fragment(a.cont_id) = None
        /\ \A k \in 1..2 : FragmentBaseScores(None)[k] = 0

\* C10: the scenario after stage 3, with Notes loaded first.
C10_Witness ==
    /\ SharedFragmentBase /\ stage = 3
    /\ content[1].Title = <<"N","o","t","e","s">> /\ Len(content) = 2
    /\ ch_title = <<"C","h","a","p","t","e","r"," ","5">>

(***************************************************************************)
(* C11: the list-valued indices                                            *)
(***************************************************************************)
ListIndexNames == {"frag_base", "pre_bang", "tail", "p_anchor", "book"}

\* the index of that name as the builder has it now
ListIndexNamed(n) ==
    CASE n = "frag_base" -> content_by_frag_base
      [] n = "pre_bang" -> content_by_pre_bang
      [] n = "tail" -> content_by_tail
      [] n = "p_anchor" -> content_by_p_anchor
      [] n = "book" -> content_by_book

\* the form of record d that the index of that name is keyed by
DerivedForm(n, d) ==
    CASE n = "frag_base" -> _fragment_base(Get(d, "ContentID"))
      [] n = "pre_bang" -> _pre_bang(Get(d, "ContentID"))
      [] n = "tail" -> _tail_after_bang_bang_no_fragment(Get(d, "ContentID"))
      [] n = "p_anchor" -> _p_anchor(Get(d, "ContentID"))
      [] n = "book" -> Get(d, "BookID")

\* the records the builder has consumed, in load order
Consumed == SubSeq(content, 1, loaded)

\* the consumed records whose form for index n is k, in load order
WithForm(n, k) == SelectSeq(Consumed, LAMBDA d : DerivedForm(n, d) = k)

\* C11: whatever records the index builder has consumed, the list under
\* every key k of each of the five list-valued indices is the consumed
\* records whose derived form is k, each once and in load order; a record
\* whose derived form is absent is in no list of that index, and a record
\* whose derived form is a non-empty string is in the list under it.
C11_ListIndicesExact ==
    \A n \in ListIndexNames :
        /\ \A k \in DOMAIN ListIndexNamed(n) :
              /\ ListIndexNamed(n)[k] = WithForm(n, k)
              /\ ListIndexNamed(n)[k] /= <<>>
        /\ \A i \in 1..loaded :
              /\ DerivedForm(n, Consumed[i]) = None =>
                    \A k \in DOMAIN ListIndexNamed(n) :
                        Consumed[i] \notin Range(ListIndexNamed(n)[k])
              /\ Truthy(DerivedForm(n, Consumed[i])) =>
                    DerivedForm(n, Consumed[i]) \in DOMAIN ListIndexNamed(n)

\* C11: two records that share a pre-bang form and have no fragment base
\* have been consumed.
C11_Witness ==
    /\ loaded = 2
    /\ \E k \in DOMAIN content_by_pre_bang : Len(content_by_pre_bang[k]) = 2
    /\ \E i \in 1..loaded : DerivedForm("frag_base", Consumed[i]) = None
    /\ content_by_frag_base = EmptyDict

(***************************************************************************)
(* C12: the conditions of the generic-title classifier, read off the       *)
(* characters of the title                                                 *)
(***************************************************************************)
\* the word w is in s at position i
HasAt(s, i, w) == i >= 1 /\ i + Len(w) - 1 <= Len(s) /\ SubSeq(s, i, i + Len(w) - 1) = w

\* s has no word character at position i
NoWordCharAt(s, i) == i < 1 \/ i > Len(s) \/ s[i] \notin WordChars

\* the digits of s from position i on are lo to hi many (any number from lo
\* on when hi is -1) and no word character follows them
NumberEnds(s, i, lo, hi) ==
    /\ SkipFwd(s, Digits, i) - i >= lo
    /\ hi >= 0 => SkipFwd(s, Digits, i) - i <= hi
    /\ NoWordCharAt(s, SkipFwd(s, Digits, i))

\* "split", blanks and a number of five digits at most are in s at position i
SplitNumberAt(s, i) ==
    HasAt(s, i, <<"s","p","l","i","t">>) /\ NumberEnds(s, SkipFwd(s, WhiteSpace, i + 5), 1, 5)

\* s has at position i the word part, one to five digits, blanks, at most
\* one underscore, and then split, blanks and a number
PartSplitAt(s, i) ==
    /\ NoWordCharAt(s, i - 1) /\ HasAt(s, i, <<"p","a","r","t">>)
    /\ SkipFwd(s, Digits, i + 4) - (i + 4) \in 1..5
    /\ \/ SplitNumberAt(s, SkipFwd(s, WhiteSpace, SkipFwd(s, Digits, i + 4)))
       \/ /\ HasAt(s, SkipFwd(s, WhiteSpace, SkipFwd(s, Digits, i + 4)), <<"_">>)
          /\ SplitNumberAt(s, SkipFwd(s, WhiteSpace, SkipFwd(s, Digits, i + 4)) + 1)

\* s has at position i the word split, at most one underscore or space, and
\* a number of five digits at most
SplitAt(s, i) ==
    /\ NoWordCharAt(s, i - 1) /\ HasAt(s, i, <<"s","p","l","i","t">>)
    /\ \/ NumberEnds(s, i + 5, 1, 5)
       \/ (HasAt(s, i + 5, <<"_">>) \/ HasAt(s, i + 5, <<" ">>)) /\ NumberEnds(s, i + 6, 1, 5)

\* s begins with 10 to 13 digits, blanks and one of the generic words
IsbnLabel(s) ==
    /\ SkipFwd(s, Digits, 1) - 1 \in 10..13
    /\ SkipFwd(s, WhiteSpace, SkipFwd(s, Digits, 1)) > SkipFwd(s, Digits, 1)
    /\ \E w \in {<<"c","h","a","p","t","e","r">>, <<"e","p","u","b">>, <<"p","a","g","e">>, <<"s","e","c","t","i","o","n">>, <<"p","a","r","t">>} :
          /\ HasAt(s, SkipFwd(s, WhiteSpace, SkipFwd(s, Digits, 1)), w)
          /\ NoWordCharAt(s, SkipFwd(s, WhiteSpace, SkipFwd(s, Digits, 1)) + Len(w))

\* s is one letter, at most one blank, and three or four digits
ShortCode(s) ==
    /\ s /= <<>> /\ s[1] \in Letters
    /\ \E from \in {2, 3} :
          /\ from = 3 => (Len(s) >= 2 /\ s[2] \in WhiteSpace)
          /\ Len(s) - from + 1 \in 3..4
          /\ \A k \in from..Len(s) : s[k] \in Digits

\* s, compared without regard to case, satisfies one of the listed
\* conditions
ListedCondition(s) ==
    \/ \E x \in {<<".","x","h","t","m","l">>, <<".","h","t","m","l">>, <<".","h","t","m">>} : EndsWith(ToLower(s), x)
    \/ Contains(s, <<"!","!">>) \/ Contains(ToLower(s), <<"!","o","e","b","p","s","!">>)
    \/ Contains(ToLower(s), <<"i","n","d","e","x","_","s","p","l","i","t">>) \/ Contains(ToLower(s), <<"i","n","d","e","x"," ","s","p","l","i","t">>)
    \/ \E i \in 1..Len(s) : PartSplitAt(ToLower(s), i) \/ SplitAt(ToLower(s), i)
    \/ IsbnLabel(ToLower(s))
    \/ HasAt(ToLower(s), 1, <<"c","h","a","p","t","e","r">>) /\ NumberEnds(s, 8, 2, -1)
    \/ HasAt(ToLower(s), 1, <<"c","h">>) /\ NumberEnds(s, 3, 1, 3)
    \/ ShortCode(s)

\* C12 as stated: the classifier returns true exactly when the title is
\* empty or absent or the title itself satisfies one of the listed
\* conditions.
C12_ListedConditions ==
    call.fn = "_is_generic_chapter_title" /\ ret /= <<>> =>
        ret[1] = (~Truthy(call.args[1]) \/ ListedCondition(call.args[1]))

\* C12: the classifier returns true exactly when the title is empty or
\* absent or the title without its leading and trailing whitespace satisfies
\* one of the listed conditions, and false for every other title.
C12_ListedConditionsTrimmed ==
    call.fn = "_is_generic_chapter_title" /\ ret /= <<>> =>
        ret[1] = (~Truthy(call.args[1]) \/ ListedCondition(Strip(call.args[1])))

\* C12: a padded abbreviated chapter marker has been classified as generic.
C12_Witness ==
    /\ call.fn = "_is_generic_chapter_title" /\ call.args[1] = <<" ","c","h","3"," ">>
    /\ ret = <<TRUE>>

(***************************************************************************)
(* C13: the title cleaner                                                  *)
(***************************************************************************)
\* s is made of whitespace only
Blank(s) == \A k \in 1..Len(s) : s[k] \in WhiteSpace

\* s without its leading and trailing whitespace: the part of s that
\* neither starts nor ends with whitespace and has only whitespace around it
TrimOf(s) ==
    CHOOSE r \in { SubSeq(s, i, j) : i \in 1..(Len(s) + 1), j \in 0..Len(s) } :
        /\ r = <<>> \/ (r[1] \notin WhiteSpace /\ r[Len(r)] \notin WhiteSpace)
        /\ \E i \in 1..(Len(s) + 1), j \in 0..Len(s) :
              /\ r = SubSeq(s, i, j)
              /\ \A k \in 1..Len(s) : (k < i \/ k > j) => s[k] \in WhiteSpace

\* C13: the cleaner returns absent for an absent, empty or blank title and
\* for a generic one when suppress is true, and the trimmed title in every
\* other case; the resolver called with suppress false and a matched record
\* whose Title is not blank returns that Title, trimmed.
C13_CleanContract ==
    /\ call.fn = "_clean_title" /\ ret /= <<>> =>
          ret[1] = IF ~Truthy(call.args[1]) \/ Blank(call.args[1]) THEN None
                   ELSE IF call.args[2] /\ _is_generic_chapter_title(TrimOf(call.args[1]))
                   THEN None
                   ELSE TrimOf(call.args[1])
    /\ ( /\ call.fn = "determine_chapter_title" /\ ret /= <<>>
         /\ ~call.args[1].suppress_filename_like
         /\ call.args[1].ch_row /= <<>>
         /\ Truthy(call.args[1].ch_row[1].Title)
         /\ ~Blank(call.args[1].ch_row[1].Title) )
       => ret[1] = TrimOf(call.args[1].ch_row[1].Title)

\* C13: with suppress false, the resolver has returned the filename-like
\* Title of the matched record.
C13_Witness ==
    /\ call.fn = "determine_chapter_title"
    /\ ~call.args[1].suppress_filename_like
    /\ call.args[1].ch_row /= <<>>
    /\ call.args[1].ch_row[1].Title = <<"c","h","3">>
    /\ ret = <<<<"c","h","3">>>>

(***************************************************************************)
(* C14: the similarity score of two tails                                  *)
(***************************************************************************)
\* the first run of digits of s, six digits of it at most, as a number;
\* -1 when s holds no digit
FirstNumber(s) ==
    IF \A k \in 1..Len(s) : s[k] \notin Digits THEN -1
    ELSE LET i == CHOOSE k \in 1..Len(s) :
                      s[k] \in Digits /\ \A h \in 1..(k - 1) : s[h] \notin Digits
             j == CHOOSE k \in i..Len(s) :
                      /\ \A h \in i..k : s[h] \in Digits
                      /\ k = Len(s) \/ s[k + 1] \notin Digits \/ k = i + 5
                      /\ k <= i + 5
         IN  StrToInt(SubSeq(s, i, j))

\* the closeness of the first numbers of s and t: 50 less their difference,
\* 0 from a difference of 50 on, and 0 when one of them holds no number
Closeness(s, t) ==
    IF FirstNumber(s) < 0 \/ FirstNumber(t) < 0 THEN 0
    ELSE IF Abs(FirstNumber(s) - FirstNumber(t)) >= 50 THEN 0
    ELSE 50 - Abs(FirstNumber(s) - FirstNumber(t))

\* the number of leading path segments two tails share
CommonLeading(s, t) ==
    Cardinality({ k \in 1..Len(_split_dirs(s)) :
                    /\ k <= Len(_split_dirs(t))
                    /\ \A h \in 1..k : _split_dirs(s)[h] = _split_dirs(t)[h] })

\* 5 for each common leading segment, 20 at most
SharedPath(s, t) == IF CommonLeading(s, t) >= 4 THEN 20 ELSE 5 * CommonLeading(s, t)

\* the current tail as the scorer reads it: an absent one is the empty string
CurOf(t) == IF t = None THEN <<>> ELSE t

\* C14 as stated: the score is 0 for an absent candidate tail and otherwise
\* 100 for identical tails, plus 80 for equal base filenames, plus the
\* closeness of the first numbers of the two tails, plus the shared path.
C14_ScoreOfTails ==
    call.fn = "_score_tail_similarity" /\ ret /= <<>> =>
        ret[1] = IF call.args[2] = None THEN 0
                 ELSE (IF CurOf(call.args[1]) = call.args[2] THEN 100 ELSE 0)
                      + (IF _basename_no_ext(CurOf(call.args[1])) = _basename_no_ext(call.args[2])
                         THEN 80 ELSE 0)
                      + Closeness(CurOf(call.args[1]), call.args[2])
                      + SharedPath(CurOf(call.args[1]), call.args[2])

\* C14: the score is 0 for an absent or empty candidate tail and otherwise
\* 100 for identical tails, plus 80 for equal base filenames that are not
\* empty, plus the closeness of the first numbers of the two base
\* filenames, plus the shared path.
C14_ScoreOfBaseNames ==
    call.fn = "_score_tail_similarity" /\ ret /= <<>> =>
        ret[1] = IF call.args[2] = None \/ call.args[2] = <<>> THEN 0
                 ELSE (IF CurOf(call.args[1]) = call.args[2] THEN 100 ELSE 0)
                      + (IF /\ _basename_no_ext(CurOf(call.args[1])) = _basename_no_ext(call.args[2])
                            /\ _basename_no_ext(call.args[2]) /= <<>>
                         THEN 80 ELSE 0)
                      + Closeness(_basename_no_ext(CurOf(call.args[1])),
                                  _basename_no_ext(call.args[2]))
                      + SharedPath(CurOf(call.args[1]), call.args[2])

\* C14: two tails whose directories hold the numbers 1 and 2 and whose file
\* name a holds none have been scored: 80 for the name, 0 for the numbers.
C14_Witness ==
    /\ call.fn = "_score_tail_similarity"
    /\ call.args = <<<<"c","h","1","/","a",".","h","t","m","l">>, <<"c","h","2","/","a",".","h","t","m","l">>>>
    /\ ret = <<80>>

(***************************************************************************)
(* C15: the scored stages 3, 5 and 7                                       *)
(***************************************************************************)
\* the stages that rank their candidates by score
ScoredStages == {3, 5, 7}

\* the key under which scored stage k looks its records up
StageKey(k, args) ==
    CASE k = 3 -> args.frag_base
      [] k = 5 -> _p_anchor(args.cont_id)
      [] k = 7 -> args.pre_bang

\* the records of the index entry of scored stage k
StageRecords(k, args) ==
    IF ~Truthy(StageKey(k, args)) THEN <<>>
    ELSE CASE k = 3 -> GetList(args.content_by_frag_base, StageKey(k, args))
           [] k = 5 -> GetList(args.content_by_p_anchor, StageKey(k, args))
           [] k = 7 -> GetList(args.content_by_pre_bang, StageKey(k, args))

\* the cleaned Title of record d
CleanedTitle(d, args) == _clean_title(Get(d, "Title"), args.suppress_filename_like)

\* the positions of the candidates among the records recs
CandidatesOf(recs, args) ==
    { i \in 1..Len(recs) :
        /\ CleanedTitle(recs[i], args) /= None
        /\ CleanedTitle(recs[i], args) /= <<>>
        /\ ToLower(CleanedTitle(recs[i], args)) /= <<"t","a","b","l","e"," ","o","f"," ","c","o","n","t","e","n","t","s">> }

\* the similarity of record d to the highlight
ScoreOf(d, args) ==
    _score_tail_similarity(_tail_after_bang_bang_no_fragment(args.cont_id),
                           _tail_after_bang_bang_no_fragment(Get(d, "ContentID")))

\* candidate i is ranked at least as high as candidate j
RanksAtLeast(recs, i, j, args) ==
    \/ ScoreOf(recs[i], args) > ScoreOf(recs[j], args)
    \/ /\ ScoreOf(recs[i], args) = ScoreOf(recs[j], args)
       /\ Len(CleanedTitle(recs[i], args)) >= Len(CleanedTitle(recs[j], args))

\* t is the title scored stage k must yield over the records recs
IsBestScored(t, recs, args) ==
    IF CandidatesOf(recs, args) = {} THEN t = None
    ELSE \E i \in CandidatesOf(recs, args) :
            /\ t = CleanedTitle(recs[i], args)
            /\ \A j \in CandidatesOf(recs, args) : RanksAtLeast(recs, i, j, args)

\* C15: when stage 3, 5 or 7 runs without a title from the earlier stages,
\* its candidates are the records of its index entry whose cleaned Title is
\* not absent and not "table of contents" in any case; it yields the title
\* of a candidate of highest score, the longer title on equal scores, and so
\* it yields a title whenever it has a candidate, whatever the scores.
C15_BestScoredCandidate ==
    \A k \in ScoredStages :
        (pc = "resolve" /\ stage = k /\ ~Truthy(FirstYield(k - 1, a)))
        => IsBestScored(ch_title, StageRecords(k, a), a)

\* C15: stage 5 has run with two candidates that both score 0, and has
\* yielded the longer of their titles.
C15_Witness ==
    /\ pc = "resolve" /\ stage = 5 /\ ~Truthy(FirstYield(4, a))
    /\ Cardinality(CandidatesOf(StageRecords(5, a), a)) = 2
    /\ \A i \in CandidatesOf(StageRecords(5, a), a) : ScoreOf(StageRecords(5, a)[i], a) = 0
    /\ \E i, j \in CandidatesOf(StageRecords(5, a), a) :
          /\ Len(CleanedTitle(StageRecords(5, a)[i], a)) > Len(CleanedTitle(StageRecords(5, a)[j], a))
          /\ ch_title = CleanedTitle(StageRecords(5, a)[i], a)

(***************************************************************************)
(* C16: stage 4, the records of the highlight's own tail                   *)
(***************************************************************************)
\* the tail of the highlight of a resolver call
OwnTail(args) == _tail_after_bang_bang_no_fragment(args.cont_id)

\* the records indexed under the highlight's own tail
OwnTailRecords(args) ==
    IF OwnTail(args) = None \/ OwnTail(args) = <<>> THEN <<>>
    ELSE GetList(args.content_by_tail, OwnTail(args))

\* t is a longest title among the candidates of recs, None without one
IsLongest(t, recs, args) ==
    IF CandidatesOf(recs, args) = {} THEN t = None
    ELSE \E i \in CandidatesOf(recs, args) :
            /\ t = CleanedTitle(recs[i], args)
            /\ \A j \in CandidatesOf(recs, args) :
                  Len(CleanedTitle(recs[i], args)) >= Len(CleanedTitle(recs[j], args))

\* the resolver has returned from a call in which stages 1 to 3 yield
\* nothing and stage 4 has a candidate
Stage4Decides ==
    /\ call.fn = "determine_chapter_title" /\ ret /= <<>>
    /\ ~Truthy(FirstYield(3, call.args[1]))
    /\ CandidatesOf(OwnTailRecords(call.args[1]), call.args[1]) /= {}

\* C16: when stage 4 runs without a title from the earlier stages, it
\* yields a longest cleaned title among the records of the highlight's own
\* tail whose cleaned Title is not absent and not "table of contents",
\* whatever their scores; without a tail it yields nothing.
C16_LongestUnderOwnTail ==
    /\ Stage4Decides => IsLongest(ret[1], OwnTailRecords(call.args[1]), call.args[1])
    /\ call.fn = "determine_chapter_title" =>
          /\ IsLongest(StageYield(4, call.args[1]), OwnTailRecords(call.args[1]), call.args[1])
          /\ ~Truthy(OwnTail(call.args[1])) => StageYield(4, call.args[1]) = None

\* C16: stage 4 has decided between two candidates of different lengths.
C16_Witness ==
    /\ Stage4Decides
    /\ \E i, j \in CandidatesOf(OwnTailRecords(call.args[1]), call.args[1]) :
          /\ Len(CleanedTitle(OwnTailRecords(call.args[1])[i], call.args[1]))
                > Len(CleanedTitle(OwnTailRecords(call.args[1])[j], call.args[1]))
          /\ ret[1] = CleanedTitle(OwnTailRecords(call.args[1])[i], call.args[1])

(***************************************************************************)
(* C17: stage 6, the sibling tails                                         *)
(***************************************************************************)
\* the records indexed under the highlight's tail followed by -n
SiblingRecords(n, args) ==
    GetList(args.content_by_tail, OwnTail(args) \o <<"-">> \o IntToStr(n))

\* the offsets that have a candidate
SiblingOffsets(args) ==
    IF ~Truthy(OwnTail(args)) THEN {}
    ELSE { n \in 1..MaxSibling : CandidatesOf(SiblingRecords(n, args), args) /= {} }

\* t is the title of a deepest candidate of recs, a longest one among the
\* deepest
IsDeepest(t, recs, args) ==
    \E i \in CandidatesOf(recs, args) :
        /\ t = CleanedTitle(recs[i], args)
        /\ \A j \in CandidatesOf(recs, args) :
              \/ DepthOf(recs[i]) > DepthOf(recs[j])
              \/ /\ DepthOf(recs[i]) = DepthOf(recs[j])
                 /\ Len(CleanedTitle(recs[i], args)) >= Len(CleanedTitle(recs[j], args))

\* the resolver has returned from a call in which stages 1 to 5 yield
\* nothing and some sibling offset has a candidate
Stage6Decides ==
    /\ call.fn = "determine_chapter_title" /\ ret /= <<>>
    /\ ~Truthy(FirstYield(5, call.args[1]))
    /\ SiblingOffsets(call.args[1]) /= {}

ExaminedLines(context) ==
    LET head == SubSeq(Strip(context), 1, Min(Len(Strip(context)), 400))
        lines == StrippedLines(head)
    IN  SubSeq(lines, 1, Min(Len(lines), 3))

\* what rule n makes of the single line ln, None when it does not match
LineTitle(n, ln) ==
    CASE n = 1 -> Rule1(<<ln>>, 1)
      [] n = 2 -> Rule2(<<ln>>, 1)
      [] n = 3 -> Rule3(<<ln>>, 1)

\* rule n matches one of the lines
RuleMatches(n, lines) == \E k \in 1..Len(lines) : LineTitle(n, lines[k]) /= None

\* what rule n makes of the first of the lines it matches
RuleTitle(n, lines) ==
    LineTitle(n, lines[CHOOSE k \in 1..Len(lines) :
                           /\ LineTitle(n, lines[k]) /= None
                           /\ \A h \in 1..(k - 1) : LineTitle(n, lines[h]) = None])

\* the title the cascade yields for a context that is not blank
CascadeTitle(context) ==
    IF RuleMatches(1, ExaminedLines(context)) THEN RuleTitle(1, ExaminedLines(context))
    ELSE IF RuleMatches(2, ExaminedLines(context)) THEN RuleTitle(2, ExaminedLines(context))
    ELSE IF RuleMatches(3, ExaminedLines(context)) THEN RuleTitle(3, ExaminedLines(context))
    ELSE Rule4(Strip(context))

\* C18: the first matching rule wins: rule 1 is tried on each of the first
\* 3 non-empty lines of the first 400 characters, then rule 2 on each of
\* them, then rule 3, and only when none of them matches is the pattern of
\* rule 1 searched in the whole context.
C18_CascadeOrder ==
    (call.fn = "_title_from_context" /\ ret /= <<>> /\ Truthy(call.args[1])
     /\ ~Blank(call.args[1]))
    => ret[1] = CascadeTitle(call.args[1])

\* C18: the heading of line 2 has won over the numbered heading of line 1.
C18_Witness ==
    /\ call.fn = "_title_from_context"
    /\ call.args[1] = <<"7","."," ","H","o","w","\n","C","h","a","p","t","e","r"," ","2",":"," ","T","w","o">>
    /\ ret = <<<<"C","h","a","p","t","e","r"," ","2",":"," ","T","w","o">>>>

(***************************************************************************)
(* C19: a Chapter or Part title needs a number                             *)
(***************************************************************************)
\* the token of s that starts at position j: its word characters up to the
\* first character that is none
TokenAt(s, j) ==
    SubSeq(s, j, CHOOSE e \in (j - 1)..Len(s) :
                     /\ \A h \in j..e : s[h] \in WordChars
                     /\ NoWordCharAt(s, e + 1))

\* t is a number: a token made of digits, or of roman numeral letters
IsNumberToken(t) ==
    /\ t /= <<>>
    /\ \/ \A h \in 1..Len(t) : t[h] \in Digits
       \/ \A h \in 1..Len(t) : t[h] \in RomanAnyCase

\* s holds the word w at position i, as a word of its own start, followed
\* by white space and a number
NumberedWordAt(s, i, w) ==
    /\ HasAt(ToLower(s), i, w) /\ NoWordCharAt(s, i - 1)
    /\ \E j \in (i + Len(w) + 1)..Len(s) :
          /\ \A h \in (i + Len(w))..(j - 1) : s[h] \in WhiteSpace
          /\ s[j] \notin WhiteSpace
          /\ IsNumberToken(TokenAt(s, j))

\* s holds Chapter or Part followed by a number
HasNumberedHeading(s) ==
    \E i \in 1..Len(s) : NumberedWordAt(s, i, <<"c","h","a","p","t","e","r">>) \/ NumberedWordAt(s, i, <<"p","a","r","t">>)

\* t is a title of the form "Chapter ..." or "Part ..."
IsChapterPartTitle(t) == t /= None /\ (StartsWith(t, <<"C","h","a","p","t","e","r"," ">>) \/ StartsWith(t, <<"P","a","r","t"," ">>))

\* C19: the extractor yields a "Chapter ..." or "Part ..." title only for a
\* context in which the word Chapter or Part is followed by a number, a
\* token made of digits or a roman numeral; for a context without such a
\* heading, without a numbered-heading line and without a line that is a
\* section name it yields nothing.
C19_HeadingNeedsNumber ==
    (call.fn = "_title_from_context" /\ ret /= <<>> /\ Truthy(call.args[1]))
    => /\ IsChapterPartTitle(ret[1]) => HasNumberedHeading(call.args[1])
       /\ ( /\ ~HasNumberedHeading(call.args[1])
            /\ ~RuleMatches(2, ExaminedLines(call.args[1]))
            /\ ~RuleMatches(3, ExaminedLines(call.args[1])) )
          => ret[1] = None

(***************************************************************************)
(* C20: the fragment base                                                  *)
(***************************************************************************)
\* the position of the first '#' of id, 0 when it has none
FirstHash(id) ==
    IF \A k \in 1..Len(id) : id[k] /= "#" THEN 0
    ELSE CHOOSE k \in 1..Len(id) : id[k] = "#" /\ \A h \in 1..(k - 1) : id[h] /= "#"

\* id up to its first '#'
UpToHash(id) == SubSeq(id, 1, FirstHash(id))

\* the fragment of id: what follows its first '#'
FragmentOf(id) == SubSeq(id, FirstHash(id) + 1, Len(id))

\* id up to the first hyphen of its fragment, the whole of id when the
\* fragment has none
UpToFragmentHyphen(id) ==
    SubSeq(id, 1, CHOOSE e \in FirstHash(id)..Len(id) :
                      /\ \A h \in (FirstHash(id) + 1)..e : id[h] /= "-"
                      /\ e = Len(id) \/ id[e + 1] = "-")

\* C20 as stated: the fragment base of an identifier with a '#' is the
\* identifier without the trailing hyphen and number of its fragment, so
\* that identifiers of one fragment base differ in that suffix at most; it
\* is absent for an identifier without '#'.
C20_TrailingNumericSuffix ==
    (call.fn = "_fragment_base" /\ ret /= <<>> /\ call.args[1] /= None) =>
        IF FirstHash(call.args[1]) = 0 THEN ret[1] = None
        ELSE /\ ret[1] = UpToHash(call.args[1]) \o WithoutNumericSuffix(FragmentOf(call.args[1]))
             /\ \A other \in NamedIds \ {None} :
                   (FirstHash(other) > 0 /\ _fragment_base(other) = ret[1])
                   => /\ UpToHash(other) = UpToHash(call.args[1])
                      /\ WithoutNumericSuffix(FragmentOf(other))
                            = WithoutNumericSuffix(FragmentOf(call.args[1]))

\* C20: the fragment base of an identifier with a '#' is the identifier up
\* to the first hyphen of its fragment, whatever follows that hyphen, so
\* that two identifiers have one fragment base exactly when they agree up to
\* there; it is absent for an identifier without '#'.
C20_CutAtFirstHyphen ==
    (call.fn = "_fragment_base" /\ ret /= <<>> /\ call.args[1] /= None) =>
        IF FirstHash(call.args[1]) = 0 THEN ret[1] = None
        ELSE /\ ret[1] = UpToFragmentHyphen(call.args[1])
             /\ \A other \in NamedIds \ {None} :
                   FirstHash(other) > 0 =>
                       (_fragment_base(other) = ret[1]
                        <=> UpToFragmentHyphen(other) = UpToFragmentHyphen(call.args[1]))

\* C20: the fragment base of an identifier whose fragment holds a hyphen
\* that no number follows has been taken.
C20_Witness ==
    /\ call.fn = "_fragment_base"
    /\ call.args[1] = <<"#","a","-","p">>
    /\ ret = <<<<"#","a">>>>

(***************************************************************************)
(* C21: the pre-bang                                                       *)
(***************************************************************************)
\* id up to the first place where it holds sep
UpToFirst(id, sep) ==
    SubSeq(id, 1, (CHOOSE k \in 1..(Len(id) - Len(sep) + 1) :
                      /\ SubSeq(id, k, k + Len(sep) - 1) = sep
                      /\ \A j \in 1..(k - 1) : SubSeq(id, j, j + Len(sep) - 1) /= sep) - 1)

\* id holds sep
Holds(id, sep) == \E k \in 1..(Len(id) - Len(sep) + 1) : SubSeq(id, k, k + Len(sep) - 1) = sep

\* C21 as stated: the pre-bang of an identifier with a separator, !! or a
\* single ! when it has no !!, is the identifier up to that separator.
C21_BeforeSeparator ==
    (call.fn = "_pre_bang" /\ ret /= <<>> /\ call.args[1] /= None) =>
        /\ Holds(call.args[1], <<"!","!">>) => ret[1] = UpToFirst(call.args[1], <<"!","!">>)
        /\ ~Holds(call.args[1], <<"!","!">>) /\ Holds(call.args[1], <<"!">>)
           => ret[1] = UpToFirst(call.args[1], <<"!">>)

\* C21: the pre-bang of an identifier with !! is the identifier up to its
\* first !!, so that pre-bang, !! and what the tail is taken from make up
\* the identifier; without !! it is the fragment base of an identifier with
\* a #, and the identifier itself otherwise, a single ! or not; it is absent
\* for an absent or empty identifier.
C21_BeforeDoubleBang ==
    (call.fn = "_pre_bang" /\ ret /= <<>>) =>
        IF call.args[1] = None \/ call.args[1] = <<>> THEN ret[1] = None
        ELSE IF Holds(call.args[1], <<"!","!">>)
        THEN /\ ret[1] = UpToFirst(call.args[1], <<"!","!">>)
             /\ ~Holds(ret[1], <<"!","!">>)
             /\ StartsWith(call.args[1], ret[1] \o <<"!","!">>)
        ELSE IF FirstHash(call.args[1]) > 0 THEN ret[1] = UpToFragmentHyphen(call.args[1])
        ELSE ret[1] = call.args[1]

\* C21: the pre-bang of an identifier whose only separator is a single !
\* has been taken.
C21_Witness ==
    /\ call.fn = "_pre_bang"
    /\ call.args[1] = <<"u","u","i","d","!","O","E","B","P","S","!","x","h","t","m","l","/","c","h","a","p","6",".","x","h","t","m","l","#","p","1","-","2">>
    /\ ret = <<<<"u","u","i","d","!","O","E","B","P","S","!","x","h","t","m","l","/","c","h","a","p","6",".","x","h","t","m","l","#","p","1">>>>

(***************************************************************************)
(* C22: the title the resolver returns                                     *)
(***************************************************************************)
\* the stage that produces the title of a resolver call: the first that
\* yields one, 0 when none does
ProducingStage(args) ==
    IF \A k \in 1..NStages : ~Truthy(StageYield(k, args)) THEN 0
    ELSE CHOOSE k \in 1..NStages :
             Truthy(StageYield(k, args)) /\ \A j \in 1..(k - 1) : ~Truthy(StageYield(j, args))

\* C22: a title the resolver returns is not empty, neither starts nor ends
\* with white space and, when suppress_filename_like is true, is not
\* generic, whichever stage produces it.
C22_ResultIsClean ==
    (call.fn = "determine_chapter_title" /\ ret /= <<>> /\ ret[1] /= None) =>
        /\ ret[1] /= <<>>
        /\ ret[1][1] \notin WhiteSpace
        /\ ret[1][Len(ret[1])] \notin WhiteSpace
        /\ call.args[1].suppress_filename_like => ~_is_generic_chapter_title(ret[1])

\* C22: with suppress_filename_like true the resolver has returned, from a
\* stage after the second, a title that is stored with white space around
\* it.
C22_Witness ==
    /\ call.fn = "determine_chapter_title" /\ ret /= <<>> /\ ret[1] /= None
    /\ call.args[1].suppress_filename_like
    /\ ProducingStage(call.args[1]) > 2
    /\ \E key \in DOMAIN call.args[1].content_by_tail :
          \E i \in 1..Len(call.args[1].content_by_tail[key]) :
              /\ call.args[1].content_by_tail[key][i].Title /= None
              /\ call.args[1].content_by_tail[key][i].Title /= ret[1]
              /\ TrimOf(call.args[1].content_by_tail[key][i].Title) = ret[1]

(***************************************************************************)
(* C23: the order of the records in an index entry                         *)
(***************************************************************************)
\* the permutations of 1..n
PermutationsOf(n) == { p \in [1..n -> 1..n] : \A i, j \in 1..n : i /= j => p[i] /= p[j] }

\* the arguments args with the index entry of scored stage k replaced by recs
WithRecords(k, args, recs) ==
    IF ~Truthy(StageKey(k, args)) THEN args
    ELSE CASE k = 3 -> [args EXCEPT !.content_by_frag_base = Put(@, StageKey(k, args), recs)]
           [] k = 5 -> [args EXCEPT !.content_by_p_anchor = Put(@, StageKey(k, args), recs)]
           [] k = 7 -> [args EXCEPT !.content_by_pre_bang = Put(@, StageKey(k, args), recs)]

\* the tuple (score, length, title) of record d
TupleOf(d, args) == <<ScoreOf(d, args), Len(CleanedTitle(d, args)), CleanedTitle(d, args)>>

\* tuple x is ahead of tuple y: on the score, then on the length, then on
\* the title as a string
Ahead(x, y) ==
    IF x[1] /= y[1] THEN x[1] > y[1]
    ELSE IF x[2] /= y[2] THEN x[2] > y[2]
    ELSE StrGreater(x[3], y[3])

\* t is the title of the greatest tuple over the candidates among recs
IsGreatestTuple(t, recs, args) ==
    IF CandidatesOf(recs, args) = {} THEN t = None
    ELSE \E i \in CandidatesOf(recs, args) :
            /\ t = CleanedTitle(recs[i], args)
            /\ \A j \in CandidatesOf(recs, args) :
                  ~Ahead(TupleOf(recs[j], args), TupleOf(recs[i], args))

\* scored stage k yields the title of the greatest tuple, and yields it for
\* every order of the records of its index entry
OrderIrrelevant(k, recs, args) ==
    /\ IsGreatestTuple(StageYield(k, args), recs, args)
    /\ \A p \in PermutationsOf(Len(recs)) :
          StageYield(k, WithRecords(k, args, [i \in 1..Len(recs) |-> recs[p[i]]]))
              = StageYield(k, args)

\* C23: stages 3, 5 and 7 yield the title of the greatest tuple (score,
\* title length, title) compared lexicographically, so what they yield is
\* the same for every permutation of the records of the index entry, and a
\* title the resolver returns from one of these stages does not depend on
\* the order in which the records were loaded.
C23_OrderOfRecordsIrrelevant ==
    (call.fn = "determine_chapter_title" /\ ret /= <<>>) =>
        \A k \in ScoredStages :
            /\ OrderIrrelevant(k, StageRecords(k, call.args[1]), call.args[1])
            /\ ProducingStage(call.args[1]) = k =>
                  \A p \in PermutationsOf(Len(StageRecords(k, call.args[1]))) :
                      ret[1] = StageYield(k, WithRecords(k, call.args[1],
                                   [i \in 1..Len(StageRecords(k, call.args[1])) |->
                                       StageRecords(k, call.args[1])[p[i]]]))

\* stage k decides a resolver call over two candidates of equal score and
\* equal title length, and the second of them wins on its title
LaterTitleWins(k, recs, args) ==
    /\ ProducingStage(args) = k
    /\ \E i, j \in CandidatesOf(recs, args) :
          /\ i < j
          /\ ScoreOf(recs[i], args) = ScoreOf(recs[j], args)
          /\ Len(CleanedTitle(recs[i], args)) = Len(CleanedTitle(recs[j], args))
          /\ CleanedTitle(recs[i], args) /= CleanedTitle(recs[j], args)
          /\ ret[1] = CleanedTitle(recs[j], args)

\* C23: a resolver call has been decided by a scored stage between two
\* candidates that tie on score and on title length, in favour of the one
\* that comes second in the index entry.
C23_Witness ==
    /\ call.fn = "determine_chapter_title" /\ ret /= <<>>
    /\ \E k \in ScoredStages : LaterTitleWins(k, StageRecords(k, call.args[1]), call.args[1])

(***************************************************************************)
(* C24: the title synthesized by the fallback                              *)
(***************************************************************************)
\* the title the fallback synthesizes for a resolver call
Synthesized(args) == _fallback_title_from_content_id(Or(args.cont_id_no_frag, args.cont_id))

\* the identifier of the highlight, without its fragment, ends in name
FileNameIs(args, name) ==
    /\ args.cont_id /= None
    /\ EndsWith(IF FirstHash(args.cont_id) = 0 THEN args.cont_id
                ELSE SubSeq(args.cont_id, 1, FirstHash(args.cont_id) - 1), name)

\* what the resolver returns once stages 1 to 7 have yielded nothing
FallbackResult(t, args) ==
    /\ (args.suppress_filename_like /\ _is_generic_chapter_title(Synthesized(args))) => t = None
    /\ (Synthesized(args) /= None /\ ~_is_generic_chapter_title(Synthesized(args)))
       => t = TrimOf(Synthesized(args))
    /\ (args.suppress_filename_like /\ FileNameIs(args, <<"i","n","d","e","x","_","s","p","l","i","t","_","0","0","0",".","h","t","m","l">>)) => t = None
    /\ (~args.suppress_filename_like /\ FileNameIs(args, <<"i","n","d","e","x","_","s","p","l","i","t","_","0","0","0",".","h","t","m","l">>))
       => t = <<"i","n","d","e","x"," ","s","p","l","i","t"," ","0","0","0">>
    /\ FileNameIs(args, <<"c","h","a","p","t","e","r","0","0","7",".","x","h","t","m","l">>) => t = <<"C","h","a","p","t","e","r"," ","7">>

\* C24: when stages 1 to 7 yield nothing and suppress_filename_like is
\* true, a generic title synthesized by the fallback is suppressed: for an
\* identifier that ends in index_split_000.html the resolver returns absent
\* and not "index split 000", whereas a synthesized label that is not
\* generic, such as "Chapter 7" for chapter007.xhtml, is returned.
C24_GenericFallbackSuppressed ==
    (/\ call.fn = "determine_chapter_title" /\ ret /= <<>>
     /\ ~Truthy(FirstYield(7, call.args[1])))
    => FallbackResult(ret[1], call.args[1])

\* C24: with suppress_filename_like true and nothing from stages 1 to 7,
\* the resolver has returned absent for an identifier that ends in
\* index_split_000.html, for which the fallback synthesizes
\* "index split 000".
C24_Witness ==
    /\ call.fn = "determine_chapter_title" /\ ret /= <<>>
    /\ ~Truthy(FirstYield(7, call.args[1]))
    /\ call.args[1].suppress_filename_like
    /\ FileNameIs(call.args[1], <<"i","n","d","e","x","_","s","p","l","i","t","_","0","0","0",".","h","t","m","l">>)
    /\ Synthesized(call.args[1]) = <<"i","n","d","e","x"," ","s","p","l","i","t"," ","0","0","0">>
    /\ ret[1] = None

(***************************************************************************)
(* C25: the similarity score as a relation between two tails               *)
(***************************************************************************)
\* the greatest score: 100 for the tail, 80 for the file name, 50 for the
\* number and 20 for the directories
MaxScore == 100 + 80 + 50 + 20

\* C25: the similarity score is symmetric, score(a, b) = score(b, a), and
\* lies between 0 and 250; for a current tail that is not empty, a
\* candidate of the identical tail scores strictly more than a candidate of
\* any other tail.
C25_SymmetricBoundedDominant ==
    (call.fn = "_score_tail_similarity" /\ ret /= <<>>) =>
        /\ ret[1] = _score_tail_similarity(call.args[2], call.args[1])
        /\ ret[1] \in 0..MaxScore
        /\ (Truthy(call.args[1]) /\ call.args[2] /= call.args[1])
           => _score_tail_similarity(call.args[1], call.args[1]) > ret[1]
        /\ (Truthy(call.args[1]) /\ call.args[2] = call.args[1]) => ret[1] >= 100

\* C25: a candidate that shares the file name, its number and four
\* directories with the current tail, but not the tail itself, has scored
\* 150, and the current tail scores 250 against itself.
C25_Witness ==
    /\ call.fn = "_score_tail_similarity" /\ ret = <<150>>
    /\ Truthy(call.args[1]) /\ call.args[2] /= call.args[1]
    /\ _score_tail_similarity(call.args[1], call.args[1]) = MaxScore
    /\ _score_tail_similarity(call.args[2], call.args[1]) = 150

=============================================================================
